---- MODULE Spec2Model ----
(***************************************************************************)
(* PwnGPT: the episode controller of src/brain.py (a five-node graph       *)
(* observe -> expert_consensus -> reason -> act -> verify with a           *)
(* conditional edge back to reason), the Guardian command classifier of    *)
(* src/toolkit.py, and the Streamlit driver of src/app.py that streams the *)
(* graph, pauses it for operator approval and re-arms it after a rejected  *)
(* flag.                                                                   *)
(*                                                                         *)
(* Texts (commands, tool outputs) are sequences of tokens.  A token stands *)
(* for a piece of text that the code only tests as a whole ("curl",        *)
(* "/etc", "CTF{", "}").  Log entries are records [kind, arg]: kind names  *)
(* the f-string that produced the entry, arg the text interpolated in it.  *)
(***************************************************************************)
EXTENDS Integers, Sequences, FiniteSets, TLC

VARIABLES
    state,                  \* AgentState: the dict threaded through the nodes
    pc,                     \* node the graph runs next, "idle" when no invocation is active
    caller,                 \* "app": run_agent_step streams the graph; "invoke": graph run to END
    demo,                   \* the module switch DEMO_MODE (brain.py sets it once, at
                            \* import; both settings of the switch are followed)
    running,                \* st.session_state.running
    waiting_for_approval,   \* st.session_state.waiting_for_approval
    flag,                   \* st.session_state.flag
    sandbox,                \* commands handed to `docker exec`, in order
    guardian,               \* Guardian.check_command evaluations of the stored decision
    fanouts,                \* executions of the specialist fan-out (thread pool)
    syntheses,              \* moderator synthesis oracle calls
    shown,                  \* the action the approval overlay displayed last
    experts,                \* the futures of the specialist pool: "idle", "running", "done"
    expert_results,         \* expert_consensus_node's list of results, as collected
    oracle,                 \* the prompts handed to _safe_generate_content, in order
    call,                   \* a call of Guardian.check_command from outside the graph:
                            \* its argument and what it returned
    menu,                   \* what the oracle and the tools may answer in this episode
    deviations              \* environment choices other than the plain one, so far

vars == <<state, pc, caller, demo, running, waiting_for_approval, flag,
          sandbox, guardian, fanouts, syntheses, shown, experts, expert_results,
          oracle, call, menu, deviations>>

\* the specialist pool of expert_consensus_node
pool == <<experts, expert_results>>

(***************************************************************************)
(* Bounds of the model.                                                    *)
(***************************************************************************)
\* The oracle and the tools answer with something other than the plain
\* answer (a SAFE command, an output without a flag) at most this often.
MaxDeviations == 2
\* Script reruns are followed while the log is at most this much longer
\* than the step ceiling.
MaxOverrun == 3
\* The commands handed to the Guardian directly are of at most this many
\* tokens.
MaxTokens == 3

(***************************************************************************)
(* Program constants.                                                      *)
(***************************************************************************)
\* check_success: len(state['messages']) > 20
MaxMessages == 20

\* Python's None where a text is expected (a missing "argument" key)
None == <<"<None>">>
\* flag_found = None, st.session_state.flag = None
NoFlag == <<>>
END == "__end__"

(***************************************************************************)
(* Text helpers: Python's `in` on strings, str.lower, str.split(sep, 1).   *)
(***************************************************************************)
\* str.lower() on one token: only the tokens that have an upper-case
\* spelling in the model change.
LowerTok(t) ==
    CASE t = "CURL" -> "curl"
      [] t = "RM -RF" -> "rm -rf"
      [] t = "PYTHON" -> "python"
      [] t = "/ETC" -> "/etc"
      [] t = "Quota" -> "quota"
      [] t = "Unknown" -> "unknown"
      [] t = "UNKNOWN" -> "unknown"
      [] t = "ctf{" -> "ctf{"
      [] t = "CTF{" -> "ctf{"
      [] t = "FLAG{" -> "flag{"
      [] t = "KEY{" -> "key{"
      [] t = "IDEH{" -> "ideh{"
      [] OTHER -> t

Lower(text) == [i \in 1..Len(text) |-> LowerTok(text[i])]

\* pat in text  (contiguous occurrence)
Contains(text, pat) ==
    \E i \in 1..(Len(text) - Len(pat) + 1) :
        \A k \in 1..Len(pat) : text[i + k - 1] = pat[k]

(***************************************************************************)
(* Guardian (src/toolkit.py).                                              *)
(***************************************************************************)
HIGH_RISK_KEYWORDS ==
    { <<"rm -rf">>, <<"mkfs">>, <<"dd if=", "/dev">>, <<":(){", " :|:& };:">>,
      <<"wget">>, <<"curl">>, <<"nc ">>, <<"ncat">>, <<"bash -i">>, <<"/dev", "/tcp">>,
      <<"chmod +x">>, <<"chown">>, <<"mv", " /">> }

FORBIDDEN_PATHS ==
    { <<"/etc">>, <<"/var">>, <<"/usr">>, <<"/bin">>, <<"/sbin">>,
      <<"~/.ssh">>, <<"~/.aws">>, <<".env">> }

\* Fault: the destructive patterns are not looked for.
destructive_none(command) == FALSE

\* tier 1: "rm -rf /" in command_lower or ":(){" in command
destructive(command) ==
    Contains(Lower(command), <<"rm -rf", " /">>) \/ Contains(command, <<":(){">>)

\* Fault: the forbidden paths are not looked for.
forbidden_none(command) == FALSE

\* tier 2: a forbidden path in the command as written
forbidden(command) == \E path \in FORBIDDEN_PATHS : Contains(command, path)

\* Fault: the keywords are looked for in the command as written.
keyword_as_written(command) ==
    \E keyword \in HIGH_RISK_KEYWORDS : Contains(command, keyword)

\* tier 3: a high-risk keyword in command_lower
keyword(command) ==
    \E keyword \in HIGH_RISK_KEYWORDS : Contains(Lower(command), keyword)

\* Fault: the catch-all markers are not looked for.
catch_all_none(command) == FALSE

\* tier 3, catch-all: "./", "python" or "sh " in the command as written
catch_all(command) ==
    Contains(command, <<"./">>) \/ Contains(command, <<"python">>)
        \/ Contains(command, <<"sh ">>)

check_command(command) ==
    IF destructive(command) THEN "BLOCKED"
    ELSE IF forbidden(command) THEN "BLOCKED"
    ELSE IF keyword(command) THEN "HIGH_RISK"
    ELSE IF catch_all(command) THEN "HIGH_RISK"
    ELSE "SAFE"

(***************************************************************************)
(* Log entries and the marker searches the nodes run over the log.         *)
(***************************************************************************)
Entry(kind, arg) == [kind |-> kind, arg |-> arg]

\* marker in msg: the entry's own wording holds the marker, or the text
\* interpolated in it does
Mentions(msg, marker) == msg.kind = marker \/ Contains(msg.arg, <<marker>>)

\* Fault: the log is never found to hold an observation.
HasObservation_never(messages) == FALSE

\* any("Observing challenge" in msg for msg in messages)
HasObservation(messages) ==
    \E i \in 1..Len(messages) : Mentions(messages[i], "Observing challenge")

\* any("Expert Consensus Strategy" in msg for msg in messages): the
\* synthesis entry and MOCK_EXPERT_REPORT open with that heading, the
\* "Expert Consensus Error: ..." entry does not hold it.
HasConsensus(messages) ==
    \E i \in 1..Len(messages) : Mentions(messages[i], "Expert Consensus Strategy")

\* f"{argument}" of a decision field that may be missing
Str(argument) == IF argument = None THEN <<"None">> ELSE argument

(***************************************************************************)
(* observe_node.  insp is what toolkit.inspect_file returned.              *)
(***************************************************************************)
observe_node(s, insp) ==
    IF s.approval_status = "GRANTED" THEN s
    ELSE IF HasObservation(s.messages) THEN s
    ELSE [s EXCEPT
            !.messages = Append(@, Entry("Observing challenge", <<>>)),
            !.tool_output = IF s.files # <<>>
                            THEN <<"Files available: ">> \o s.files \o insp
                            ELSE <<"No files provided.">>]

(***************************************************************************)
(* expert_consensus_node.  The node either passes through, appends the     *)
(* canned report (DEMO_MODE), or submits one run_expert call per persona   *)
(* to a thread pool, collects the results as they complete and, once every *)
(* future has completed, makes the moderator's synthesis call.             *)
(***************************************************************************)
personas == <<"Forensics Investigator", "Web Exploitation Specialist",
              "Reverse Engineer">>

Experts == 1..Len(personas)

\* a prompt: who built it, the "Flag Format:" line, the reports pasted in
Prompt(by, fmt, reports) == [by |-> by, fmt |-> fmt, reports |-> reports]

\* run_expert: f"### {persona}\n{response.text}", or the inline error note
\* when the oracle call raised
run_expert(p, ok) ==
    [heading |-> personas[p], text |-> IF ok THEN "report" ELSE "[Error"]

\* {p: r for p, r in zip(personas, expert_results)}
zip(labels, results) ==
    [i \in 1..(IF Len(results) < Len(labels) THEN Len(results) ELSE Len(labels))
        |-> [persona |-> labels[i], report |-> results[i]]]

\* the canned expert_outputs of DEMO_MODE
MockOutputs ==
    [i \in Experts |-> [persona |-> personas[i],
                        report |-> [heading |-> "mock", text |-> "Mock"]]]

\* The part of the node before the pool: the new state and whether the
\* fan-out is started.
expert_consensus_node(s, demoMode) ==
    IF HasConsensus(s.messages)
    THEN [st |-> s, fanout |-> 0]
    ELSE IF s.approval_status = "GRANTED"
    THEN [st |-> s, fanout |-> 0]
    ELSE IF demoMode
    THEN [st |-> [s EXCEPT !.messages =
                        Append(@, Entry("Expert Consensus Strategy", <<"mock">>)),
                           !.expert_outputs = MockOutputs],
          fanout |-> 0]
    ELSE [st |-> s, fanout |-> 1]

\* Fault: the results are taken as soon as one future has completed.
joined_early(futures) == \E p \in Experts : futures[p] = "done"

\* the loop over as_completed and the exit of the `with` block: every
\* future has completed
joined(futures) == \A p \in Experts : futures[p] = "done"

\* The part of the node after the pool.  synthOK: the moderator call
\* returned; otherwise it raised.
moderator(s, results, synthOK) ==
    [s EXCEPT !.expert_outputs = zip(personas, results),
              !.messages = Append(@, IF synthOK
                                     THEN Entry("Expert Consensus Strategy", <<>>)
                                     ELSE Entry("Expert Consensus Error", <<>>))]

(***************************************************************************)
(* reason_node.  reply is what came of the oracle call: a parsed decision, *)
(* a text that stayed unparsable after the escape repair, or an exception  *)
(* out of _safe_generate_content or out of the handling of the response    *)
(* (a JSON text that is no object has no .get).                            *)
(***************************************************************************)
\* Fault: reason plans anew although the operator has granted the action.
reason_replans(s) == FALSE

\* if state.get('approval_status') == "GRANTED": pass through
reason_resumes(s) == s.approval_status = "GRANTED"

\* Fault: only the parse errors are caught, a failed oracle call leaves
\* the node.
propagates_errors(reply) == reply.kind = "error"

\* try: ... except Exception as e: nothing that comes of the oracle call or
\* of the parsing of its response leaves the node
propagates(reply) == FALSE

\* Fault: planning leaves the approval as the operator set it.
reset_skipped(s) == s

\* state['approval_status'] = "NONE"  (reset approval status on new reasoning)
reset(s) == [s EXCEPT !.approval_status = "NONE"]

reason_node(s, reply) ==
    IF reason_resumes(s)
    THEN [s EXCEPT !.messages = Append(@, Entry("Permission granted", <<>>))]
    ELSE
      LET s1 == reset(s) IN
      CASE reply.kind = "decision" ->
             [s1 EXCEPT !.messages = Append(@, Entry("Thought", <<>>)),
                        !.current_action = reply.decision]
        [] reply.kind = "unparsable" ->
             [s1 EXCEPT !.messages = Append(@, Entry("Thought",
                                          <<"JSON Parse Error, trying manual fix.">>)),
                        !.current_action =
                            [action |-> "finish", argument |-> <<"JSON Error">>]]
        [] OTHER ->
             [s1 EXCEPT !.messages = Append(@, Entry("Reasoning Error", <<>>)),
                        !.current_action =
                            [action |-> "finish", argument |-> <<"Error in reasoning">>]]

(***************************************************************************)
(* CTFToolkit.run_command: the Guardian is asked again; a command that is  *)
(* not BLOCKED goes to `docker exec`; out is its combined output or what   *)
(* subprocess.run raised.                                                  *)
(***************************************************************************)
\* what subprocess.run may raise: the timeout, any other exception
Failures == {<<"TimeoutExpired">>, <<"Exception: ", "gone">>}

\* Fault: the timeout is not caught.
sandbox_raises_timeout(out) == out = <<"TimeoutExpired">>

\* except subprocess.TimeoutExpired / except Exception: both return
sandbox_raises(out) == FALSE

\* Fault: run_command does not ask the Guardian.
refused_never(command) == FALSE

\* risk_level = Guardian.check_command(command); if risk_level == "BLOCKED"
refused(command) == check_command(command) = "BLOCKED"

run_command(command, out) ==
    IF refused(command)
    THEN [text |-> <<"Security Violation: Command blocked by Guardian Protocol.">>,
          exec |-> <<>>, raised |-> FALSE]
    ELSE IF sandbox_raises(out)
    THEN [text |-> <<>>, exec |-> <<command>>, raised |-> TRUE]
    ELSE IF out = <<"TimeoutExpired">>
    THEN [text |-> <<"Error: Command timed out in Sandbox.">>,
          exec |-> <<command>>, raised |-> FALSE]
    ELSE IF out \in Failures
    THEN [text |-> <<"Error executing command in Sandbox: ">> \o Tail(out),
          exec |-> <<command>>, raised |-> FALSE]
    ELSE [text |-> out, exec |-> <<command>>, raised |-> FALSE]

(***************************************************************************)
(* act_node.  result is what the tool of the chosen kind answers.  The     *)
(* outcome names the new state, the commands handed to the sandbox, the    *)
(* number of Guardian evaluations and whether the node raised.             *)
(***************************************************************************)
\* Fault: a HIGH_RISK command is never held back for approval.
needs_approval_never(risk, approval_status) == FALSE

\* Fault: a HIGH_RISK command is held back even when it was granted.
needs_approval_again(risk, approval_status) == risk = "HIGH_RISK"

\* if risk == "HIGH_RISK" and state.get('approval_status') != "GRANTED"
needs_approval(risk, approval_status) ==
    risk = "HIGH_RISK" /\ approval_status # "GRANTED"

\* Fault: the BLOCKED branch keeps the previous output.
blocked_silently(s, argument) ==
    [s EXCEPT !.messages = Append(@, Entry("Blocked dangerous command", argument))]

\* the BLOCKED branch: the violation text and the log entry, nothing else
blocked(s, argument) ==
    [s EXCEPT
       !.tool_output = <<"SECURITY VIOLATION: Command blocked by Guardian.">>,
       !.messages = Append(@, Entry("Blocked dangerous command", argument))]

\* Fault: the argument of every action kind goes through the Guardian.
classified_any(action_type) == TRUE

\* if action_type == "command": the one kind whose argument is classified
classified(action_type) == action_type = "command"

\* Fault: the entry does not name the command.
ran_command_unnamed(argument) == Entry("Ran command", <<>>)

\* state['messages'].append(f"Ran command: {argument}")
ran_command(argument) == Entry("Ran command", argument)

\* Fault: once the operator has rejected a flag, the previous output is
\* kept.
command_output_stale(s, argument, text) ==
    IF \E i \in 1..Len(s.messages) : s.messages[i].kind = "User Feedback"
    THEN s.tool_output
    ELSE <<"Command '">> \o argument \o <<"' ", "Output:\n">> \o text

\* state['tool_output'] = f"Command '{argument}' Output:\n{result}"
command_output(s, argument, text) ==
    <<"Command '">> \o argument \o <<"' ", "Output:\n">> \o text

\* Fault: the approval is not reset after the command has run.
consumed_kept(approval_status) == approval_status

\* state['approval_status'] = "NONE" # Reset
consumed(approval_status) == "NONE"

act_node(s, result) ==
    LET action_type == s.current_action.action
        argument == s.current_action.argument
        quiet(st) == [st |-> st, exec |-> <<>>, checks |-> 0, raised |-> FALSE]
    IN
    IF s.approval_status = "DENIED"
    THEN quiet([s EXCEPT !.tool_output = <<"Action denied by user. Halting.">>,
                         !.messages = Append(@, Entry("Action was denied", <<>>)),
                         !.approval_status = "NONE"])
    ELSE IF classified(action_type)
    THEN
      IF argument = None
      THEN [st |-> s, exec |-> <<>>, checks |-> 0, raised |-> TRUE]
      ELSE
        LET risk == check_command(argument) IN
        IF risk = "BLOCKED"
        THEN [st |-> blocked(s, argument),
              exec |-> <<>>, checks |-> 1, raised |-> FALSE]
        ELSE IF needs_approval(risk, s.approval_status)
        THEN [st |-> [s EXCEPT
                        !.approval_status = "REQUESTED",
                        !.messages = Append(@, Entry("Requesting approval", argument))],
              exec |-> <<>>, checks |-> 1, raised |-> FALSE]
        ELSE
          LET run == run_command(argument, result) IN
          IF run.raised
          THEN [st |-> s, exec |-> run.exec, checks |-> 2, raised |-> TRUE]
          ELSE
          [st |-> [s EXCEPT
                     !.tool_output = command_output(s, argument, run.text),
                     !.messages = Append(@, ran_command(argument)),
                     !.approval_status = consumed(s.approval_status)],
           exec |-> run.exec, checks |-> 2, raised |-> FALSE]
    ELSE IF action_type = "web"
    THEN quiet([s EXCEPT
                  !.tool_output = <<"Web Scrape '">> \o Str(argument) \o <<"' ", "Output:\n">>
                                  \o result,
                  !.messages = Append(@, Entry("Scraped URL", Str(argument)))])
    ELSE IF action_type = "screenshot"
    THEN
      IF result[Len(result)] = ".png"
      THEN quiet([s EXCEPT
                    !.tool_output = <<"[SCREENSHOT]: ">> \o result,
                    !.messages = Append(@, Entry("Screenshot taken", Str(argument)))])
      ELSE quiet([s EXCEPT
                    !.tool_output = <<"Screenshot Failed: ">> \o result,
                    !.messages = Append(@, Entry("Example Error", result))])
    ELSE IF action_type = "finish"
    THEN quiet([s EXCEPT
                  !.tool_output = <<"Agent decided to finish.">>,
                  !.messages = Append(@, Entry("Agent signaling completion", <<>>))])
    ELSE quiet([s EXCEPT
                  !.tool_output = <<"Unknown action: ", action_type>>,
                  !.messages = Append(@, Entry("Skipping unknown action", <<action_type>>))])

(***************************************************************************)
(* verify_node: the success-signal heuristics.                             *)
(***************************************************************************)
\* the bounded lookahead of the pattern  fmt + r".{1,100}?\}"
Window == 100

\* the texts the outputs hold in base64, by the name of their token:
\* base64.b64encode(text) of src/test_base64_flag.py
Encodings ==
    << <<"b64(CTF{xyz})", <<"CTF{", "xyz", "}">>>>,
       <<"b64(CTF{hidden_in_blocks})", <<"CTF{", "hidden_in_blocks", "}">>>>,
       <<"b64(CTF{a}bcdefghijklmn})", <<"CTF{", "a", "}", "bcdefghijklmn", "}">>>>,
       <<"b64(CTF{x*100y})", <<"CTF{", "x*100", "y", "}">>>>,
       <<"b64(CTF{xyz}.......)", <<"CTF{", "xyz", "}", ".......">>>>,
       <<"b64(nothing to see.)", <<"nothing to see.">>>> >>

b64encode(text) ==
    LET at == {i \in 1..Len(Encodings) : Encodings[i][2] = text}
    IN Encodings[CHOOSE i \in at : TRUE][1]

\* the text an encoded token stands for, None for any other token
B64Decode(t) ==
    LET at == {i \in 1..Len(Encodings) : Encodings[i][1] = t}
    IN IF at = {} THEN None ELSE Encodings[CHOOSE i \in at : TRUE][2]

\* number of characters a token stands for; base64 writes 4 characters for
\* every 3 of the text, the last group padded with '='
RECURSIVE TokLen(_), Chars(_)
TokLen(t) ==
    CASE t = "abc" -> 3
      [] t = "xyz" -> 3
      [] t = "noise " -> 6
      [] t = " trailing" -> 9
      [] t = "CTF{" -> 4
      [] t = "ctf{" -> 4
      [] t = "flag{" -> 5
      [] t = "x*100" -> 100
      [] t = "hidden_in_blocks" -> 16
      [] t = "bcdefghijklmn" -> 13
      [] t = "......." -> 7
      [] t = "nothing to see." -> 15
      [] B64Decode(t) # None -> 4 * ((Chars(B64Decode(t)) + 2) \div 3)
      [] OTHER -> 1

Chars(text) == IF text = <<>> THEN 0 ELSE TokLen(Head(text)) + Chars(Tail(text))

\* the '=' characters at the end of an encoded token
Pads(t) == (3 - (Chars(B64Decode(t)) % 3)) % 3

\* the tokens written with the characters [A-Za-z0-9+/=] only
IsB64(t) == \/ B64Decode(t) # None
            \/ t \in {"abc", "xyz", "x*100", "a", "y", "bcdefghijklmn"}

\* the characters of [A-Za-z0-9+/=] a token of another kind starts with
Lead(t) ==
    CASE t = "CTF{" -> 3
      [] t = "ctf{" -> 3
      [] t = "flag{" -> 4
      [] t = "noise " -> 5
      [] t = "hidden_in_blocks" -> 6
      [] OTHER -> 0

\* and those it ends with
Trail(t) ==
    CASE t = " trailing" -> 8
      [] t = "hidden_in_blocks" -> 6
      [] OTHER -> 0

\* full_output.split("Output:\n", 1): the text after the first marker
AfterMarker(full) ==
    LET at == {i \in 1..Len(full) : full[i] = "Output:\n"} IN
    IF at = {} THEN full
    ELSE LET i == CHOOSE i \in at : \A k \in at : i <= k
         IN SubSeq(full, i + 1, Len(full))

\* Fault: the body of the pattern is greedy, the match runs to the last
\* closing brace it can reach.
Search_greedy(text, prefix, least, most, fold) ==
    LET same(a, b) == IF fold THEN LowerTok(a) = LowerTok(b) ELSE a = b
        closes(i, j) == /\ text[j] = "}"
                        /\ \A k \in (i + 1)..(j - 1) : text[k] # "\n"
                        /\ Chars(SubSeq(text, i + 1, j - 1)) >= least
                        /\ Chars(SubSeq(text, i + 1, j - 1)) <= most
        ends(i) == {j \in (i + 1)..Len(text) : closes(i, j)}
        starts == {i \in 1..Len(text) : same(text[i], prefix) /\ ends(i) # {}}
    IN IF starts = {} THEN <<>>
       ELSE LET i == CHOOSE i \in starts : \A k \in starts : i <= k
                j == CHOOSE j \in ends(i) : \A k \in ends(i) : j >= k
            IN SubSeq(text, i, j)

\* re.search(prefix + body + r"\}", text): body is ".{least,most}?", '.'
\* matches anything but a newline; the leftmost start wins and, from it,
\* the nearest closing brace.  fold: re.IGNORECASE.  <<>> when no match.
Search(text, prefix, least, most, fold) ==
    LET same(a, b) == IF fold THEN LowerTok(a) = LowerTok(b) ELSE a = b
        closes(i, j) == /\ text[j] = "}"
                        /\ \A k \in (i + 1)..(j - 1) : text[k] # "\n"
                        /\ Chars(SubSeq(text, i + 1, j - 1)) >= least
                        /\ Chars(SubSeq(text, i + 1, j - 1)) <= most
        ends(i) == {j \in (i + 1)..Len(text) : closes(i, j)}
        starts == {i \in 1..Len(text) : same(text[i], prefix) /\ ends(i) # {}}
    IN IF starts = {} THEN <<>>
       ELSE LET i == CHOOSE i \in starts : \A k \in starts : i <= k
                j == CHOOSE j \in ends(i) : \A k \in ends(i) : j <= k
            IN SubSeq(text, i, j)

\* the shortest run of characters the verifier takes for encoded text
MinRun == 20

\* a stretch of a run: n characters, of the encoded token enc or, with
\* enc = "", of other text
Piece(n, enc) == [n |-> n, enc |-> enc]

\* the maximal runs of characters [A-Za-z0-9+/=] of a text, in order
RECURSIVE Runs(_, _)
Runs(text, cur) ==
    IF text = <<>> THEN <<cur>>
    ELSE LET t == Head(text) IN
         IF IsB64(t)
         THEN Runs(Tail(text),
                   Append(cur, Piece(TokLen(t), IF B64Decode(t) # None THEN t ELSE "")))
         ELSE <<IF Lead(t) > 0 THEN Append(cur, Piece(Lead(t), "")) ELSE cur>>
              \o Runs(Tail(text), IF Trail(t) > 0 THEN <<Piece(Trail(t), "")>> ELSE <<>>)

RECURSIVE RunLen(_)
RunLen(run) == IF run = <<>> THEN 0 ELSE Head(run).n + RunLen(Tail(run))

\* Fault: runs of any length are taken for encoded text.
Candidates_any(text) == SelectSeq(Runs(text, <<>>), LAMBDA run : RunLen(run) >= 1)

\* re.findall(r'[A-Za-z0-9+/=]{20,}', text), in order
Candidates(text) == SelectSeq(Runs(text, <<>>), LAMBDA run : RunLen(run) >= MinRun)

\* base64.b64decode(cand).decode('utf-8', errors='ignore'): the characters
\* are read in groups of four, q of a group read so far.  An encoded token
\* that starts a group gives its text, any other stretch gives bytes that
\* are no text ("?"); padding that completes a group ends the decoding and
\* padding elsewhere is skipped; a run that ends inside a group raises
\* (None).
RECURSIVE DecodeRun(_, _, _)
DecodeRun(run, q, acc) ==
    IF run = <<>> THEN IF q = 0 THEN acc ELSE None
    ELSE LET p == Head(run) IN
         IF p.enc = ""
         THEN DecodeRun(Tail(run), (q + p.n) % 4, Append(acc, "?"))
         ELSE LET k == Pads(p.enc)
                  out == IF q = 0 THEN acc \o B64Decode(p.enc) ELSE Append(acc, "?")
                  q1 == (q + p.n - k) % 4
              IN IF \E i \in 1..k : q1 >= 2 /\ q1 + i >= 4
                 THEN out
                 ELSE DecodeRun(Tail(run), q1, out)

\* Fault: no run is decoded.
b64decode_failing(cand) == None

b64decode(cand) == DecodeRun(cand, 0, <<>>)

generic_patterns == <<"CTF{", "flag{", "key{", "IDEH{">>

\* Fault: the log is started over with the match.
found_rewrites(s, kind, m) ==
    [s EXCEPT !.flag_found = m, !.messages = <<Entry(kind, m)>>]

\* Fault: a match is stored without its log entry.
found_unlogged(s, kind, m) == [s EXCEPT !.flag_found = m]

\* state['flag_found'] = match.group(0); state['messages'].append(...)
found(s, kind, m) ==
    [s EXCEPT !.flag_found = m, !.messages = Append(@, Entry(kind, m))]

\* Fault: the extraction has no window.
extract_unbounded(text, flag_fmt) == Search(text, flag_fmt, 1, Chars(text), FALSE)

\* re.search(re.escape(flag_fmt) + r".{1,100}?\}", text)
extract(text, flag_fmt) == Search(text, flag_fmt, 1, Window, FALSE)

\* Fault: the generic patterns are matched in the case they are written in.
generic_as_written(output, pattern) == Search(output, pattern, 0, Chars(output), FALSE)

\* re.search(pattern, output, re.IGNORECASE) of a generic pattern
generic(output, pattern) == Search(output, pattern, 0, Chars(output), TRUE)

verify_node(s) ==
    IF s.approval_status = "REQUESTED" THEN s
    ELSE
      LET output == AfterMarker(s.tool_output)
          flag_fmt == s.flag_format
      IN
      IF LowerTok(flag_fmt) = "unknown"
      THEN
        LET hits == {p \in 1..Len(generic_patterns) :
                        generic(output, generic_patterns[p]) # <<>>}
        IN IF hits = {} THEN s
           ELSE LET p == CHOOSE p \in hits : \A q \in hits : p <= q
                IN found(s, "SUCCESS: Flag found (generic)",
                         generic(output, generic_patterns[p]))
      ELSE IF Contains(output, <<flag_fmt>>) /\ extract(output, flag_fmt) # <<>>
      THEN found(s, "SUCCESS: Flag found", extract(output, flag_fmt))
      ELSE
        LET cands == Candidates(output)
            hit(c) == /\ b64decode(cands[c]) # None
                      /\ Contains(b64decode(cands[c]), <<flag_fmt>>)
                      /\ extract(b64decode(cands[c]), flag_fmt) # <<>>
            hits == {c \in 1..Len(cands) : hit(c)}
        IN IF hits = {} THEN s
           ELSE LET c == CHOOSE c \in hits : \A d \in hits : c <= d
                IN found(s, "SUCCESS: Flag found (Base64 Decoded)",
                         extract(b64decode(cands[c]), flag_fmt))

(***************************************************************************)
(* check_success: the conditional edge out of verify.                      *)
(***************************************************************************)
\* Fault: the ceiling test is missing.
check_success_unbounded(s) ==
    IF s.approval_status = "REQUESTED" THEN END
    ELSE IF s.approval_status = "DENIED" THEN END
    ELSE IF s.flag_found # NoFlag THEN END
    ELSE "reason"

\* Fault: the ceiling test is off by one (>= for >).
check_success_at_ceiling(s) ==
    IF s.approval_status = "REQUESTED" THEN END
    ELSE IF s.approval_status = "DENIED" THEN END
    ELSE IF s.flag_found # NoFlag THEN END
    ELSE IF Len(s.messages) >= MaxMessages THEN END
    ELSE "reason"

check_success(s) ==
    IF s.approval_status = "REQUESTED" THEN END
    ELSE IF s.approval_status = "DENIED" THEN END
    ELSE IF s.flag_found # NoFlag THEN END
    ELSE IF Len(s.messages) > MaxMessages THEN END
    ELSE "reason"

(***************************************************************************)
(* The environment: what the oracle decides and what the tools answer.     *)
(***************************************************************************)
Decision(action, argument) == [action |-> action, argument |-> argument]

\* the plain decision: a SAFE command
PlainDecision == Decision("command", <<"ls">>)

Decided(d) == [kind |-> "decision", decision |-> d]

PlainReply == Decided(PlainDecision)

\* a command with a HIGH_RISK keyword, a command naming a forbidden path
RiskyReply == Decided(Decision("command", <<"curl">>))
BlockedReply == Decided(Decision("command", <<"cat ", "/etc">>))

\* a SAFE command whose text holds the output marker and then a flag
EchoDecision == Decision("command", <<"true #", "Output:\n", "CTF{", "abc", "}">>)

\* the other decisions the oracle may return
OtherDecisions ==
    { RiskyReply.decision,
      BlockedReply.decision,
      Decision("command", <<"./", "chall">>),       \* HIGH_RISK catch-all
      Decision("command", None),                    \* no "argument" key
      Decision("web", <<"http://t">>),
      Decision("screenshot", <<"http://t">>),
      Decision("finish", <<"CTF{", "abc", "}">>),
      Decision("web", <<"curl", "/etc">>),          \* arguments a command
      Decision("screenshot", <<"rm -rf", " /">>),   \* would be held back or
      Decision("finish", <<"./", "chall">>),        \* blocked for
      Decision("dance", <<"ls">>),                  \* not one of the four kinds
      EchoDecision }

\* and the replies that are no decision: unparsable text, a failed call
OtherReplies ==
    {Decided(d) : d \in OtherDecisions}
    \cup {[kind |-> "unparsable", decision |-> PlainDecision],
          [kind |-> "error", decision |-> PlainDecision],
          [kind |-> "no object", decision |-> PlainDecision]}

\* Whether act_node is about to call a tool, and which.
Tool(s) ==
    IF s.approval_status = "DENIED" THEN "none"
    ELSE IF s.current_action.action = "command"
    THEN IF s.current_action.argument = None THEN "none"
         ELSE IF check_command(s.current_action.argument) = "BLOCKED" THEN "none"
         ELSE IF needs_approval(check_command(s.current_action.argument),
                                s.approval_status) THEN "none"
         ELSE "sandbox"
    ELSE IF s.current_action.action \in {"web", "screenshot"}
    THEN s.current_action.action
    ELSE "none"

\* the plain tool answer: output without a flag, a screenshot taken
PlainAnswer(s) ==
    IF Tool(s) = "screenshot" THEN <<"/shot", ".png">> ELSE <<"out">>

FlagAnswer == <<"noise ", "CTF{", "abc", "}", " trailing">>

\* what the tool may answer otherwise
OtherAnswers(s) ==
    CASE Tool(s) = "sandbox" ->
           { FlagAnswer,
             <<"b64(CTF{xyz}.......)">>,
             <<"TimeoutExpired">>,
             <<"Exception: ", "gone">>,
             <<"noise ", "ctf{", "abc", "}">>,
             <<"key{", "abc", "}", "CTF{", "abc", "}">>,
             <<"b64(CTF{hidden_in_blocks})">> }
      [] Tool(s) = "web" ->
           { FlagAnswer, <<"Error fetching URL">> }
      [] Tool(s) = "screenshot" ->
           { <<"Screenshot failed">> }
      [] OTHER -> {}

\* The repertoire of an episode: the replies and answers, besides the plain
\* ones, that its oracle and tools give.
\* experts: what the specialist calls may do besides succeeding in the
\* order submitted ("late": complete after one submitted later, "error":
\* raise).
\* budget: how often the episode may depart from the plain answers.
Menu(replies, answers) ==
    [replies |-> replies, answers |-> answers, experts |-> {},
     budget |-> MaxDeviations]

\* risky and blocked commands, outputs that hold a flag
ApprovalMenu == Menu({RiskyReply, BlockedReply}, {FlagAnswer})

(***************************************************************************)
(* The callers of the graph.                                               *)
(*   "app":    run_agent_step (src/app.py) consumes app.stream: after the  *)
(*             event of each node it may stop consuming, and the nodes     *)
(*             after that one do not run.                                  *)
(*   "invoke": the compiled graph is run until check_success returns END.  *)
(***************************************************************************)
Idle(next) == IF next = END THEN "idle" ELSE next

\* run_agent_step, the body of the loop over the events: s is the state
\* the node returned, next the node the graph would run after it.
Consume(s, next) ==
    IF s.flag_found # NoFlag
    THEN [pc |-> "idle", running |-> FALSE, waiting |-> waiting_for_approval,
          flag |-> s.flag_found]
    ELSE IF s.approval_status = "REQUESTED"
    THEN [pc |-> "idle", running |-> running, waiting |-> TRUE, flag |-> flag]
    ELSE IF s.current_action.action = "finish"
    THEN [pc |-> "idle", running |-> FALSE, waiting |-> waiting_for_approval,
          flag |-> flag]
    ELSE IF s.messages = <<>>       \* messages[-1] raises: "Agent Crashed"
    THEN [pc |-> "idle", running |-> FALSE, waiting |-> waiting_for_approval,
          flag |-> flag]
    ELSE IF Mentions(s.messages[Len(s.messages)], "Reasoning Error")
    THEN [pc |-> "idle", running |-> FALSE, waiting |-> waiting_for_approval,
          flag |-> flag]
    ELSE [pc |-> Idle(next), running |-> running, waiting |-> waiting_for_approval,
          flag |-> flag]

\* A node returned s and the graph's edge out of it leads to next.
Yield(s, next) ==
    /\ state' = s
    /\ IF caller = "app"
       THEN LET c == Consume(s, next) IN
            /\ pc' = c.pc
            /\ running' = c.running
            /\ waiting_for_approval' = c.waiting
            /\ flag' = c.flag
            /\ shown' = IF c.waiting /\ ~waiting_for_approval
                        THEN s.current_action ELSE shown
       ELSE /\ pc' = Idle(next)
            /\ UNCHANGED <<running, waiting_for_approval, flag, shown>>

\* A node raised: the graph run ends; run_agent_step reports the crash and
\* clears running, the state of the last event stays.
Raise ==
    /\ pc' = "idle"
    /\ running' = FALSE
    /\ UNCHANGED <<state, waiting_for_approval, flag, shown>>

\* no call of the Guardian from outside the graph
NoCall == [arg |-> <<>>, ret |-> "none"]

\* initial_state: the context of a new episode, for a flag format and a
\* list of uploaded files
Fresh(who, repertoire, fmt, files) ==
    /\ state = [messages |-> <<>>,
                tool_output |-> <<>>,
                flag_found |-> NoFlag,
                current_action |-> Decision("None", None),
                approval_status |-> "NONE",
                flag_format |-> fmt,
                files |-> files,
                expert_outputs |-> <<>>]
    /\ caller = who
    /\ menu = repertoire
    /\ demo \in BOOLEAN
    /\ pc = "observe"
    /\ running = (caller = "app")
    /\ waiting_for_approval = FALSE
    /\ flag = NoFlag
    /\ sandbox = <<>>
    /\ guardian = 0
    /\ fanouts = 0
    /\ syntheses = 0
    /\ shown = Decision("None", None)
    /\ experts = [p \in Experts |-> "idle"]
    /\ expert_results = <<>>
    /\ oracle = <<>>
    /\ call = NoCall
    /\ deviations = 0

(***************************************************************************)
(* The nodes as steps of a graph run.                                      *)
(***************************************************************************)
Observe ==
    /\ pc = "observe"
    /\ Yield(observe_node(state, <<"File Content Preview">>), "expert_consensus")
    /\ UNCHANGED <<call, caller, demo, menu, sandbox, guardian, fanouts, syntheses, pool,
                   oracle, deviations>>

ExpertConsensus ==
    /\ pc = "expert_consensus"
    /\ LET r == expert_consensus_node(state, demo) IN
       IF r.fanout = 0
       THEN /\ Yield(r.st, "reason")
            /\ UNCHANGED <<fanouts, pool>>
       ELSE /\ state' = r.st
            /\ pc' = "experts"
            /\ experts' = [p \in Experts |-> "running"]
            /\ expert_results' = <<>>
            /\ fanouts' = fanouts + 1
            /\ UNCHANGED <<running, waiting_for_approval, flag, shown>>
    /\ UNCHANGED <<call, caller, demo, menu, sandbox, guardian, syntheses, oracle, deviations>>

\* One submitted run_expert call makes its oracle call and completes; its
\* result is appended to expert_results.
RunExpert ==
    /\ pc = "experts"
    /\ \E p \in Experts, ok \in BOOLEAN :
         /\ experts[p] = "running"
         /\ "late" \notin menu.experts
               => \A q \in Experts : q < p => experts[q] = "done"
         /\ "error" \notin menu.experts => ok
         /\ experts' = [experts EXCEPT ![p] = "done"]
         /\ expert_results' = Append(expert_results, run_expert(p, ok))
         /\ oracle' = Append(oracle, Prompt("expert", state.flag_format, <<>>))
    /\ UNCHANGED <<state, pc, call, caller, demo, menu, running, waiting_for_approval, flag,
                   sandbox, guardian, fanouts, syntheses, shown, deviations>>

\* The pool is joined; the moderator prompt is built from the collected
\* results and sent, and the node returns.
Synthesize ==
    /\ pc = "experts"
    /\ joined(experts)
    /\ \E synthOK \in BOOLEAN :
         Yield(moderator(state, expert_results, synthOK), "reason")
    /\ oracle' = Append(oracle, Prompt("moderator", state.flag_format, expert_results))
    /\ syntheses' = syntheses + 1
    /\ experts' = [p \in Experts |-> "idle"]
    /\ expert_results' = <<>>
    /\ UNCHANGED <<call, caller, demo, menu, sandbox, guardian, fanouts, deviations>>

Reason ==
    /\ pc = "reason"
    /\ \E reply \in {PlainReply} \cup (OtherReplies \cap menu.replies) :
         LET costs == reply # PlainReply /\ state.approval_status # "GRANTED" IN
         /\ reply # PlainReply => /\ state.approval_status # "GRANTED"
                                  /\ deviations < menu.budget
         /\ IF propagates(reply) /\ ~reason_resumes(state)
            THEN Raise
            ELSE Yield(reason_node(state, reply), "act")
         /\ deviations' = IF costs THEN deviations + 1 ELSE deviations
         /\ guardian' = IF state.approval_status = "GRANTED" THEN guardian ELSE 0
    /\ oracle' = IF reason_resumes(state) THEN oracle
                 ELSE Append(oracle, Prompt("reason", state.flag_format, <<>>))
    /\ UNCHANGED <<call, caller, demo, menu, sandbox, fanouts, syntheses, pool>>

Act ==
    /\ pc = "act"
    /\ \E result \in {PlainAnswer(state)} \cup (OtherAnswers(state) \cap menu.answers) :
         LET r == act_node(state, result)
             costs == result # PlainAnswer(state)
         IN
         /\ costs => deviations < menu.budget
         /\ IF r.raised THEN Raise ELSE Yield(r.st, "verify")
         /\ sandbox' = sandbox \o r.exec
         /\ guardian' = guardian + r.checks
         /\ deviations' = IF costs THEN deviations + 1 ELSE deviations
    /\ UNCHANGED <<call, caller, demo, menu, fanouts, syntheses, pool, oracle>>

Verify ==
    /\ pc = "verify"
    /\ LET s == verify_node(state) IN Yield(s, check_success(s))
    /\ UNCHANGED <<call, caller, demo, menu, sandbox, guardian, fanouts, syntheses, pool,
                   oracle, deviations>>

(***************************************************************************)
(* The operator's controls (src/app.py).  Each ends in st.rerun(): the     *)
(* script runs again from the top and its auto-run guard                   *)
(*     if running and not waiting_for_approval: run_agent_step()           *)
(* starts a graph run at the entry point.                                  *)
(***************************************************************************)
\* Fault: the auto-run guard does not look at waiting_for_approval.
AutoRun_while_waiting(run, waiting) == IF run THEN "observe" ELSE "idle"

AutoRun(run, waiting) == IF run /\ ~waiting THEN "observe" ELSE "idle"

\* APPROVE ACTION
Approve ==
    /\ caller = "app" /\ pc = "idle"
    /\ waiting_for_approval
    /\ state' = [state EXCEPT !.approval_status = "GRANTED"]
    /\ waiting_for_approval' = FALSE
    /\ pc' = AutoRun(running, FALSE)
    /\ UNCHANGED <<call, caller, demo, menu, running, flag, sandbox, guardian, fanouts,
                   syntheses, shown, pool, oracle, deviations>>

\* DENY ACTION
Deny ==
    /\ caller = "app" /\ pc = "idle"
    /\ waiting_for_approval
    /\ state' = [state EXCEPT !.approval_status = "DENIED"]
    /\ waiting_for_approval' = FALSE
    /\ pc' = AutoRun(running, FALSE)
    /\ UNCHANGED <<call, caller, demo, menu, running, flag, sandbox, guardian, fanouts,
                   syntheses, shown, pool, oracle, deviations>>

\* Incorrect - Keep Searching
Reject ==
    /\ caller = "app" /\ pc = "idle"
    /\ flag # NoFlag
    /\ state' = [state EXCEPT
                   !.messages = Append(@, Entry("User Feedback", flag)),
                   !.flag_found = NoFlag]
    /\ flag' = NoFlag
    /\ running' = TRUE
    /\ pc' = AutoRun(TRUE, waiting_for_approval)
    /\ UNCHANGED <<call, caller, demo, menu, waiting_for_approval, sandbox, guardian, fanouts,
                   syntheses, shown, pool, oracle, deviations>>

\* Any other interaction with the page reruns the script; the auto-run
\* guard alone decides whether a graph run starts.
Rerun ==
    /\ caller = "app" /\ pc = "idle"
    /\ AutoRun(running, waiting_for_approval) # "idle"
    /\ Len(state.messages) <= MaxMessages + MaxOverrun
    /\ pc' = AutoRun(running, waiting_for_approval)
    /\ UNCHANGED <<state, call, caller, demo, menu, running, waiting_for_approval, flag,
                   sandbox, guardian, fanouts, syntheses, shown, pool, oracle,
                   deviations>>

\* An episode starts either on the page of src/app.py, by INITIALIZE AGENT
\* with a challenge file uploaded (the graph is then streamed by
\* run_agent_step and the operator's controls act between the runs), or as
\* one run of the compiled graph on a fresh context without files.
Init ==
    \/ Fresh("app", ApprovalMenu, "CTF{", <<"chall">>)
    \/ Fresh("invoke", ApprovalMenu, "CTF{", <<>>)

Next ==
    \/ Observe
    \/ ExpertConsensus
    \/ RunExpert
    \/ Synthesize
    \/ Reason
    \/ Act
    \/ Verify
    \/ Approve
    \/ Deny
    \/ Reject
    \/ Rerun

Spec == Init /\ [][Next]_vars

(***************************************************************************)
(* The consensus stage under every schedule of its pool: the specialist    *)
(* calls complete in any order and any of them may raise.  The oracle then *)
(* keeps to SAFE commands, so the operator's controls never come up; the   *)
(* flag format is the one of src/test_expert_parallel.py.                  *)
(***************************************************************************)
ConsensusMenu == [Menu({}, {}) EXCEPT !.experts = {"late", "error"}]

ConsensusInit ==
    \/ Fresh("app", ConsensusMenu, "IDEH{", <<"chall">>)
    \/ Fresh("invoke", ConsensusMenu, "IDEH{", <<>>)

ConsensusNext ==
    \/ Observe
    \/ ExpertConsensus
    \/ RunExpert
    \/ Synthesize
    \/ Reason
    \/ Act
    \/ Verify
    \/ Rerun

ConsensusSpec == ConsensusInit /\ [][ConsensusNext]_vars

(***************************************************************************)
(* The action kinds: the oracle also decides on web, screenshot and finish *)
(* actions whose arguments hold what the Guardian looks for in a command,  *)
(* and on a command without argument.  It proposes no command that needs   *)
(* approval, so the operator's controls never come up.                     *)
(***************************************************************************)
KindsMenu ==
    Menu({ Decided(Decision("web", <<"curl", "/etc">>)),
           Decided(Decision("screenshot", <<"rm -rf", " /">>)),
           Decided(Decision("finish", <<"./", "chall">>)),
           Decided(Decision("command", None)) },
         {})

KindsInit ==
    \/ Fresh("app", KindsMenu, "CTF{", <<"chall">>)
    \/ Fresh("invoke", KindsMenu, "CTF{", <<>>)

KindsNext ==
    \/ Observe
    \/ ExpertConsensus
    \/ RunExpert
    \/ Synthesize
    \/ Reason
    \/ Act
    \/ Verify
    \/ Rerun

KindsSpec == KindsInit /\ [][KindsNext]_vars

(***************************************************************************)
(* Guardian.check_command on its own: a static method without state,       *)
(* called with a command text and returning a label.                       *)
(***************************************************************************)
\* pieces of command text: harmless words, the destructive patterns, a
\* forbidden path, keywords and catch-all markers, some in upper case, and
\* an interpreter the Guardian has no pattern for
CommandTokens ==
    { "ls", "rm -rf", "RM -RF", " /", ":(){", "/etc", "/ETC", "curl", "CURL",
      "./", "python", "sh ", "perl" }

Commands == UNION {[1..n -> CommandTokens] : n \in 0..MaxTokens}

GuardianInit ==
    /\ call \in {[arg |-> command, ret |-> "pending"] : command \in Commands}
    /\ state = [messages |-> <<>>,
                tool_output |-> <<>>,
                flag_found |-> NoFlag,
                current_action |-> Decision("None", None),
                approval_status |-> "NONE",
                flag_format |-> "CTF{",
                files |-> <<>>,
                expert_outputs |-> <<>>]
    /\ pc = "idle"
    /\ caller = "invoke"
    /\ menu = Menu({}, {})
    /\ demo = TRUE
    /\ running = FALSE
    /\ waiting_for_approval = FALSE
    /\ flag = NoFlag
    /\ sandbox = <<>>
    /\ guardian = 0
    /\ fanouts = 0
    /\ syntheses = 0
    /\ shown = Decision("None", None)
    /\ experts = [p \in Experts |-> "idle"]
    /\ expert_results = <<>>
    /\ oracle = <<>>
    /\ deviations = 0

\* Guardian.check_command(command) returns
CheckCommand ==
    /\ call.ret = "pending"
    /\ call' = [call EXCEPT !.ret = check_command(call.arg)]
    /\ UNCHANGED <<state, pc, caller, demo, menu, running, waiting_for_approval, flag,
                   sandbox, guardian, fanouts, syntheses, shown, pool, oracle,
                   deviations>>

GuardianNext == CheckCommand

GuardianSpec == GuardianInit /\ [][GuardianNext]_vars

(***************************************************************************)
(* Every way into the sandbox: the episodes of Spec, where act_node calls  *)
(* run_command, and CTFToolkit.run_command called on its own with any      *)
(* command text.                                                           *)
(***************************************************************************)
RunCommandInit ==
    /\ call \in {[arg |-> command, ret |-> "pending", out |-> <<>>] : command \in Commands}
    /\ state = [messages |-> <<>>,
                tool_output |-> <<>>,
                flag_found |-> NoFlag,
                current_action |-> Decision("None", None),
                approval_status |-> "NONE",
                flag_format |-> "CTF{",
                files |-> <<>>,
                expert_outputs |-> <<>>]
    /\ pc = "idle"
    /\ caller = "direct"
    /\ menu = Menu({}, {})
    /\ demo = TRUE
    /\ running = FALSE
    /\ waiting_for_approval = FALSE
    /\ flag = NoFlag
    /\ sandbox = <<>>
    /\ guardian = 0
    /\ fanouts = 0
    /\ syntheses = 0
    /\ shown = Decision("None", None)
    /\ experts = [p \in Experts |-> "idle"]
    /\ expert_results = <<>>
    /\ oracle = <<>>
    /\ deviations = 0

\* toolkit.run_command(command) returns
RunCommand ==
    /\ caller = "direct"
    /\ call.ret = "pending"
    /\ \E out \in {<<"out">>} \cup Failures :
         LET run == run_command(call.arg, out) IN
         /\ call' = [call EXCEPT !.ret = "returned", !.out = run.text]
         /\ sandbox' = sandbox \o run.exec
         /\ guardian' = guardian + 1
    /\ UNCHANGED <<state, pc, caller, demo, menu, running, waiting_for_approval, flag,
                   fanouts, syntheses, shown, pool, oracle, deviations>>

ExecInit ==
    \/ Init
    \/ RunCommandInit

ExecNext ==
    \/ Next
    \/ RunCommand

ExecSpec == ExecInit /\ [][ExecNext]_vars

(***************************************************************************)
(* _safe_generate_content, the wrapper around every oracle call, on its    *)
(* own: the oracle answers by a script, as the mock of                     *)
(* src/test_rate_limit.py does (side_effect), each call taking the next    *)
(* outcome; a call past the end of the script raises StopIteration.        *)
(***************************************************************************)
retries == 3
MaxScript == 4
MaxJitter == 2

\* a response, the two errors the wrapper takes for a rate limit, another
\* error
Outcomes == {"response", "429", "Quota", "timeout"}

Scripts == UNION {[1..n -> Outcomes] : n \in 1..MaxScript}

side_effect(script, n) == IF n <= Len(script) THEN script[n] ELSE "StopIteration"

\* Fault: every error is taken for a rate limit.
rate_limited_always(error) == TRUE

\* "429" in error_str or "quota" in error_str.lower()
rate_limited(error) == error = "429" \/ LowerTok(error) = "quota"

\* Fault: the wrapper never gives up.
exhausted_never(attempt) == FALSE

\* if attempt >= retries: raise e
exhausted(attempt) == attempt >= retries

RetryInit ==
    /\ call \in {[arg |-> script, ret |-> "pending", at |-> "try", attempt |-> 0,
                  current_delay |-> 5, calls |-> 0, sleeps |-> <<>>] : script \in Scripts}
    /\ state = [messages |-> <<>>,
                tool_output |-> <<>>,
                flag_found |-> NoFlag,
                current_action |-> Decision("None", None),
                approval_status |-> "NONE",
                flag_format |-> "CTF{",
                files |-> <<>>,
                expert_outputs |-> <<>>]
    /\ pc = "idle"
    /\ caller = "direct"
    /\ menu = Menu({}, {})
    /\ demo = TRUE
    /\ running = FALSE
    /\ waiting_for_approval = FALSE
    /\ flag = NoFlag
    /\ sandbox = <<>>
    /\ guardian = 0
    /\ fanouts = 0
    /\ syntheses = 0
    /\ shown = Decision("None", None)
    /\ experts = [p \in Experts |-> "idle"]
    /\ expert_results = <<>>
    /\ oracle = <<>>
    /\ deviations = 0

\* one turn of the loop up to its return, raise or sleep: the oracle call
\* and the handling of its error
GenerateContent ==
    /\ call.ret = "pending" /\ call.at = "try"
    /\ LET n == call.calls + 1
           e == side_effect(call.arg, n)
       IN
       IF ~(call.attempt < retries)
       THEN call' = [call EXCEPT !.ret = "raised", !.at = "Max retries exceeded"]
       ELSE IF e = "response"
       THEN call' = [call EXCEPT !.calls = n, !.ret = "returned", !.at = "response"]
       ELSE IF rate_limited(e)
       THEN IF exhausted(call.attempt + 1)
            THEN call' = [call EXCEPT !.calls = n, !.attempt = @ + 1,
                                      !.ret = "raised", !.at = e]
            ELSE call' = [call EXCEPT !.calls = n, !.attempt = @ + 1, !.at = "sleep"]
       ELSE call' = [call EXCEPT !.calls = n, !.ret = "raised", !.at = e]
    /\ UNCHANGED <<state, pc, caller, demo, menu, running, waiting_for_approval, flag,
                   sandbox, guardian, fanouts, syntheses, shown, pool, oracle,
                   deviations>>

\* time.sleep(current_delay + random.uniform(0, 2)) returns and the delay
\* doubles
Sleep ==
    /\ call.ret = "pending" /\ call.at = "sleep"
    /\ \E jitter \in 0..MaxJitter :
         call' = [call EXCEPT !.sleeps = Append(@, call.current_delay + jitter),
                              !.current_delay = @ * 2,
                              !.at = "try"]
    /\ UNCHANGED <<state, pc, caller, demo, menu, running, waiting_for_approval, flag,
                   sandbox, guardian, fanouts, syntheses, shown, pool, oracle,
                   deviations>>

RetryNext ==
    \/ GenerateContent
    \/ Sleep

\* The wrapper runs in the thread of its caller, which does nothing else
\* meanwhile: a step that can be taken is taken.
RetrySpec == RetryInit /\ [][RetryNext]_vars /\ WF_vars(RetryNext)

(***************************************************************************)
(* Episodes in which the oracle and the sandbox fail: the oracle call      *)
(* raises, its response is no JSON or no JSON object, the command times    *)
(* out or docker exec raises.  The oracle departs from its plain reply     *)
(* only in these ways, so the operator's controls never come up.           *)
(***************************************************************************)
FailuresMenu ==
    Menu({ [kind |-> "unparsable", decision |-> PlainDecision],
           [kind |-> "error", decision |-> PlainDecision],
           [kind |-> "no object", decision |-> PlainDecision] },
         Failures)

FailuresInit ==
    \/ Fresh("app", FailuresMenu, "CTF{", <<"chall">>)
    \/ Fresh("invoke", FailuresMenu, "CTF{", <<>>)

FailuresNext ==
    \/ Observe
    \/ ExpertConsensus
    \/ RunExpert
    \/ Synthesize
    \/ Reason
    \/ Act
    \/ Verify
    \/ Rerun

FailuresSpec == FailuresInit /\ [][FailuresNext]_vars

(***************************************************************************)
(* Episodes whose flag format is the sentinel "Unknown" of verify_node,    *)
(* in the spellings its lower() accepts.  The outputs hold a flag in lower *)
(* case, flags of two generic patterns, and an encoded flag.               *)
(***************************************************************************)
SentinelMenu ==
    Menu({}, { <<"noise ", "ctf{", "abc", "}">>,
               <<"key{", "abc", "}", "CTF{", "abc", "}">>,
               <<"b64(CTF{hidden_in_blocks})">> })

SentinelInit ==
    \/ Fresh("app", SentinelMenu, "Unknown", <<"chall">>)
    \/ Fresh("invoke", SentinelMenu, "unknown", <<>>)

SentinelNext ==
    \/ Observe
    \/ ExpertConsensus
    \/ RunExpert
    \/ Synthesize
    \/ Reason
    \/ Act
    \/ Verify
    \/ Rerun

SentinelSpec == SentinelInit /\ [][SentinelNext]_vars

(***************************************************************************)
(* verify_node on its own, called as src/test_base64_flag.py calls it: on  *)
(* a context with an empty log, no pending approval and a tool output.     *)
(***************************************************************************)
MaxOutput == 5
MaxEncoded == 3

Texts(tokens, n) == UNION {[1..k -> tokens] : k \in 0..n}

\* outputs that hold the flag format as it is: noise, the prefix, a body,
\* the closing brace, a line break, a body of the length of the window
LiteralOutputs == Texts({"noise ", "CTF{", "abc", "}", "\n", "x*100"}, MaxOutput)

\* outputs that hold encoded flags of several lengths and paddings, between
\* blanks or next to other characters of the base64 alphabet
EncodedOutputs ==
    Texts({" ", "abc", "x*100", "CTF{", "b64(CTF{xyz})", "b64(CTF{hidden_in_blocks})",
           "b64(CTF{a}bcdefghijklmn})", "b64(CTF{x*100y})"}, MaxEncoded)

VerifyInit ==
    /\ state \in {[messages |-> <<>>,
                   tool_output |-> output,
                   flag_found |-> NoFlag,
                   current_action |-> Decision("None", None),
                   approval_status |-> "NONE",
                   flag_format |-> "CTF{",
                   files |-> <<>>,
                   expert_outputs |-> <<>>] : output \in LiteralOutputs \cup EncodedOutputs}
    /\ pc = "verify"
    /\ caller = "direct"
    /\ call = NoCall
    /\ menu = Menu({}, {})
    /\ demo = TRUE
    /\ running = FALSE
    /\ waiting_for_approval = FALSE
    /\ flag = NoFlag
    /\ sandbox = <<>>
    /\ guardian = 0
    /\ fanouts = 0
    /\ syntheses = 0
    /\ shown = Decision("None", None)
    /\ experts = [p \in Experts |-> "idle"]
    /\ expert_results = <<>>
    /\ oracle = <<>>
    /\ deviations = 0

\* new_state = brain.verify_node(state)
VerifyNode ==
    /\ pc = "verify"
    /\ caller = "direct"
    /\ state' = verify_node(state)
    /\ pc' = "idle"
    /\ UNCHANGED <<call, caller, demo, menu, running, waiting_for_approval, flag,
                   sandbox, guardian, fanouts, syntheses, shown, pool, oracle,
                   deviations>>

VerifyNext == VerifyNode

VerifySpec == VerifyInit /\ [][VerifyNext]_vars

(***************************************************************************)
(* Episodes in which the oracle writes a flag into its own decision: into  *)
(* the text of a command, behind an output marker, and into the argument   *)
(* of a finish action.  The sandbox may answer with a flag as well.        *)
(***************************************************************************)
EchoMenu ==
    Menu({ Decided(EchoDecision),
           Decided(Decision("finish", <<"CTF{", "abc", "}">>)) },
         {FlagAnswer})

EchoInit ==
    \/ Fresh("app", EchoMenu, "CTF{", <<"chall">>)
    \/ Fresh("invoke", EchoMenu, "CTF{", <<>>)

EchoNext ==
    \/ Observe
    \/ ExpertConsensus
    \/ RunExpert
    \/ Synthesize
    \/ Reason
    \/ Act
    \/ Verify
    \/ Rerun

EchoSpec == EchoInit /\ [][EchoNext]_vars

(***************************************************************************)
(* Episodes in which the oracle may give the same bad reply in every       *)
(* cycle: a command the Guardian blocks, or a call that fails.  A graph    *)
(* run is a sequence of calls in the thread of its caller; every oracle    *)
(* and tool call returning, a node that can run does run.  The compiled    *)
(* graph is run to END on a fresh context; on the page the script is       *)
(* rerun on the contexts earlier runs left.                                *)
(***************************************************************************)
\* more departures than a graph run has cycles
EveryCycle == MaxMessages + 1

LoopMenus ==
    { Menu({BlockedReply}, {}),
      Menu({[kind |-> "error", decision |-> PlainDecision]}, {}) }

LoopInit ==
    \E m \in LoopMenus :
        \/ Fresh("app", m, "CTF{", <<"chall">>)
        \/ Fresh("invoke", [m EXCEPT !.budget = EveryCycle], "CTF{", <<>>)

GraphStep ==
    \/ Observe
    \/ ExpertConsensus
    \/ RunExpert
    \/ Synthesize
    \/ Reason
    \/ Act
    \/ Verify

LoopNext ==
    \/ GraphStep
    \/ Rerun

LoopSpec == LoopInit /\ [][LoopNext]_vars /\ WF_vars(GraphStep)

TypeOK ==
    /\ pc \in {"idle", "observe", "expert_consensus", "experts", "reason", "act",
              "verify"}
    /\ state.approval_status \in {"NONE", "REQUESTED", "GRANTED", "DENIED"}
    /\ deviations \in 0..menu.budget

(***************************************************************************)
(* Properties.                                                             *)
(***************************************************************************)
LastEntry(s) == s.messages[Len(s.messages)]

\* the stored decision is a command of the given risk tier
Pending(s, risk) ==
    /\ s.current_action.action = "command"
    /\ s.current_action.argument # None
    /\ check_command(s.current_action.argument) = risk

\* the number of log entries of the given kinds
Count(messages, kinds) ==
    Cardinality({i \in 1..Len(messages) : messages[i].kind \in kinds})

\* the graph run has ended (check_success returned END or the caller
\* stopped consuming the stream)
Halted == pc' = "idle"

\* C1: when act is entered with a HIGH_RISK command and approval is not
\* GRANTED, act sets approval to REQUESTED and hands nothing to the
\* sandbox; verify, where it still runs, changes nothing; and the graph run
\* ends with approval = REQUESTED.
C1_HighRiskHaltsForApproval ==
    [][ /\ (pc = "act" /\ Pending(state, "HIGH_RISK")
                       /\ state.approval_status # "GRANTED")
           => /\ state'.approval_status = "REQUESTED"
              /\ sandbox' = sandbox
              /\ state'.tool_output = state.tool_output
              /\ pc' = IF caller = "app" THEN "idle" ELSE "verify"
        /\ (pc = "verify" /\ state.approval_status = "REQUESTED")
           => /\ state' = state
              /\ sandbox' = sandbox
              /\ Halted
      ]_vars

C1_Witness ==
    /\ caller = "invoke" /\ pc = "idle"
    /\ state.approval_status = "REQUESTED"
    /\ LastEntry(state).kind = "Requesting approval"
    /\ sandbox = <<>>

\* C2: while approval is GRANTED, observe and expert_consensus return the
\* state as it is and call nothing, reason keeps the stored decision, and
\* act hands the sandbox, once, the argument of the very action the
\* approval overlay showed.
C2_GrantedRunsThePendingAction ==
    [][ state.approval_status = "GRANTED" =>
          /\ pc \in {"observe", "expert_consensus"} =>
                /\ state' = state
                /\ UNCHANGED <<sandbox, fanouts, syntheses>>
          /\ pc = "reason" =>
                /\ state'.current_action = state.current_action
                /\ state'.approval_status = "GRANTED"
                /\ Count(state'.messages, {"Observing challenge"})
                      = Count(state.messages, {"Observing challenge"})
                /\ UNCHANGED <<sandbox, fanouts, syntheses>>
          /\ pc = "act" =>
                /\ state.current_action = shown
                /\ sandbox' = Append(sandbox, shown.argument)
      ]_vars

C2_Witness ==
    /\ Len(state.messages) >= 2
    /\ LastEntry(state).kind = "Ran command"
    /\ LastEntry(state).arg = shown.argument
    /\ state.messages[Len(state.messages) - 1].kind = "Permission granted"
    /\ sandbox # <<>> /\ sandbox[Len(sandbox)] = shown.argument

\* C3: on the run that follows a GRANT, act executes the stored command
\* without asking the Guardian about it again.
C3_NoSecondClassification ==
    [][ (pc = "act" /\ state.approval_status = "GRANTED")
            => guardian' = guardian ]_vars

\* C4: approval changes only along NONE -> REQUESTED, REQUESTED -> GRANTED,
\* REQUESTED -> DENIED, GRANTED -> NONE and DENIED -> NONE.
C4_ApprovalTransitions ==
    [][ \/ state'.approval_status = state.approval_status
        \/ <<state.approval_status, state'.approval_status>> \in
              { <<"NONE", "REQUESTED">>, <<"REQUESTED", "GRANTED">>,
                <<"REQUESTED", "DENIED">>, <<"GRANTED", "NONE">>,
                <<"DENIED", "NONE">> }
      ]_vars

\* both a denied and a granted request lie behind
C4_Witness ==
    /\ state.approval_status = "NONE"
    /\ \E i \in 1..(Len(state.messages) - 1) :
          /\ state.messages[i].kind = "Requesting approval"
          /\ state.messages[i + 1].kind = "Thought"
    /\ \E i \in 1..Len(state.messages) :
          state.messages[i].kind = "Permission granted"
    /\ LastEntry(state).kind = "Ran command"

\* C5 as stated: a BLOCKED command is not run, is logged, leaves the
\* violation text as last output and approval as it was, and the loop goes
\* on to reason.
C5_BlockedContinuesToReason ==
    [][ /\ (pc = "act" /\ Pending(state, "BLOCKED"))
           => /\ sandbox' = sandbox
              /\ state'.messages = Append(state.messages,
                    Entry("Blocked dangerous command", state.current_action.argument))
              /\ state'.tool_output
                    = <<"SECURITY VIOLATION: Command blocked by Guardian.">>
              /\ state'.approval_status = state.approval_status
              /\ state'.approval_status # "REQUESTED"
              /\ pc' = "verify"
        /\ (pc = "verify" /\ LastEntry(state).kind = "Blocked dangerous command")
           => /\ state' = state
              /\ pc' = "reason"
      ]_vars

\* C5 amended: ... and the loop goes on to reason unless the log now holds
\* more than 20 entries, in which case the graph run ends.
C5_BlockedContinuesWithinBudget ==
    [][ /\ (pc = "act" /\ Pending(state, "BLOCKED"))
           => /\ sandbox' = sandbox
              /\ state'.messages = Append(state.messages,
                    Entry("Blocked dangerous command", state.current_action.argument))
              /\ state'.tool_output
                    = <<"SECURITY VIOLATION: Command blocked by Guardian.">>
              /\ state'.approval_status = state.approval_status
              /\ state'.approval_status # "REQUESTED"
              /\ pc' = "verify"
        /\ (pc = "verify" /\ LastEntry(state).kind = "Blocked dangerous command")
           => /\ state' = state
              /\ pc' = IF Len(state.messages) > MaxMessages THEN "idle" ELSE "reason"
      ]_vars

\* a blocked command lies behind and the loop is planning again
C5_Witness ==
    /\ pc = "reason"
    /\ LastEntry(state).kind = "Blocked dangerous command"
    /\ state.tool_output = <<"SECURITY VIOLATION: Command blocked by Guardian.">>
    /\ state.approval_status = "NONE"

\* C6: after DENY the denied action is not run, the log records that it
\* was not executed, and reason plans afresh; the episode neither succeeds
\* nor treats the action as blocked.
C6_DenyIsRecorded ==
    [][ state.approval_status = "DENIED" =>
          /\ sandbox' = sandbox
          /\ state'.flag_found = NoFlag
          /\ Count(state'.messages, {"Blocked dangerous command"})
                = Count(state.messages, {"Blocked dangerous command"})
          /\ state'.approval_status # "DENIED"
                => /\ pc = "reason"
                   /\ Count(state'.messages, {"Action was denied"}) > 0
      ]_vars

\* C7: once a graph run has ended because the log exceeds 20 entries (no
\* flag, no approval pending), no node runs again until an operator
\* control re-arms the episode.
C7_CeilingStopsTheEpisode ==
    [][ ( /\ pc = "idle"
          /\ Len(state.messages) > MaxMessages
          /\ state.flag_found = NoFlag /\ flag = NoFlag
          /\ ~waiting_for_approval )
            => pc' = "idle" ]_vars

\* C8: on the page, approval = REQUESTED is only ever seen with the graph
\* idle and the approval controls up, showing the stored action; from there
\* nothing but the operator's GRANTED or DENIED changes anything, and only
\* then does a graph run start again.
C8_NoRunWhileRequested ==
    /\ [](waiting_for_approval =>
             /\ pc = "idle"
             /\ state.approval_status = "REQUESTED"
             /\ state.current_action = shown)
    /\ []((caller = "app" /\ state.approval_status = "REQUESTED")
             => (pc = "idle" /\ waiting_for_approval))
    /\ [][ (caller = "app" /\ state.approval_status = "REQUESTED") =>
              /\ state'.approval_status \in {"GRANTED", "DENIED"}
              /\ state' = [state EXCEPT !.approval_status = state'.approval_status]
              /\ pc' = "observe"
         ]_vars

C8_Witness ==
    /\ waiting_for_approval /\ pc = "idle"
    /\ state.approval_status = "REQUESTED"
    /\ running

\* C9: after verify the tests run in this order, first match wins:
\* approval = REQUESTED halts, a success signal halts, more than 20 log
\* entries halt, anything else continues to reason -- exactly 20 entries
\* continue.
C9_VerifyToNext ==
    [][ pc = "verify" =>
          pc' = IF state'.approval_status = "REQUESTED" THEN "idle"
                ELSE IF state'.flag_found # NoFlag THEN "idle"
                ELSE IF Len(state'.messages) > 20 THEN "idle"
                ELSE "reason"
      ]_vars

C9_Witness ==
    /\ pc = "reason"
    /\ Len(state.messages) = 20
    /\ state.flag_found = NoFlag
    /\ LastEntry(state).kind = "Ran command"

\* C10: over all the graph runs of an episode the consensus stage runs its
\* fan-out and its synthesis call no more than once and leaves no more than
\* one entry (the strategy or the error note) in the log.
C10_ConsensusOnce ==
    /\ fanouts <= 1
    /\ syntheses <= 1
    /\ Count(state.messages, {"Expert Consensus Strategy", "Expert Consensus Error"}) <= 1

\* the step hands the oracle a prompt built by the given stage
Asks(by) ==
    /\ Len(oracle') = Len(oracle) + 1
    /\ oracle'[Len(oracle')].by = by

C12_FourCallsByConsensus ==
    pc = "reason" =>
        /\ Len(oracle) >= 4
        /\ \E i \in 1..Len(oracle) : oracle[i].fmt = state.flag_format

\* C13: the rejection (open only while a flag is shown) appends one note
\* to the log, clears flag_found and changes nothing else of the context;
\* the graph run it starts, and every later one, goes through observe and
\* expert_consensus without their doing anything, on to reason.
C13_RejectRearmsAtReason ==
    [][ /\ (pc = "idle" /\ flag # NoFlag /\ flag' = NoFlag) =>
              /\ state' = [state EXCEPT
                             !.messages = Append(@, Entry("User Feedback", flag)),
                             !.flag_found = NoFlag]
              /\ pc' = "observe"
        /\ (pc = "observe" /\ Count(state.messages, {"User Feedback"}) > 0) =>
              /\ state' = state
              /\ pc' = "expert_consensus"
        /\ (pc = "expert_consensus" /\ Count(state.messages, {"User Feedback"}) > 0) =>
              /\ state' = state
              /\ UNCHANGED <<fanouts, syntheses, oracle>>
              /\ pc' = "reason"
      ]_vars

\* the log entries verify_node writes with a match
SuccessKinds ==
    { "SUCCESS: Flag found", "SUCCESS: Flag found (generic)",
      "SUCCESS: Flag found (Base64 Decoded)" }

\* the inspected output holds the flag format neither as it is nor inside
\* the decoding of a base64 run
NoPrefix(s) ==
    LET output == AfterMarker(s.tool_output)
        cands == Candidates(output)
    IN /\ ~Contains(output, <<s.flag_format>>)
       /\ \A c \in 1..Len(cands) : ~Contains(b64decode(cands[c]), <<s.flag_format>>)

\* C14 as stated: flag_found becomes non-null only in verify, together with
\* its SUCCESS entry, and the log of every state with a flag holds that
\* entry; when the inspected output holds the flag format neither as it is
\* nor encoded, verify changes nothing and the loop goes on to reason;
\* flag_found becomes null again only by the rejection.
C14_SignalOnlyFromVerify ==
    /\ [][ /\ (state'.flag_found # NoFlag /\ state'.flag_found # state.flag_found) =>
              /\ pc = "verify"
              /\ LastEntry(state').kind \in SuccessKinds
              /\ LastEntry(state').arg = state'.flag_found
           /\ (pc = "verify" /\ state.approval_status # "REQUESTED"
                             /\ LowerTok(state.flag_format) # "unknown"
                             /\ NoPrefix(state)) =>
              /\ state' = state
              /\ state'.flag_found = NoFlag
              /\ pc' = "reason"
           /\ (state.flag_found # NoFlag /\ state'.flag_found = NoFlag) =>
              /\ pc = "idle"
              /\ state'.messages
                    = Append(state.messages, Entry("User Feedback", state.flag_found))
         ]_vars
    /\ [](state.flag_found # NoFlag =>
             \E i \in 1..Len(state.messages) :
                /\ state.messages[i].kind \in SuccessKinds
                /\ state.messages[i].arg = state.flag_found)

\* C14 amended: ... verify changes nothing and the loop goes on to reason
\* unless the log holds more than 20 entries, in which case the graph run
\* ends.
C14_SignalOnlyFromVerifyWithinBudget ==
    /\ [][ /\ (state'.flag_found # NoFlag /\ state'.flag_found # state.flag_found) =>
              /\ pc = "verify"
              /\ LastEntry(state').kind \in SuccessKinds
              /\ LastEntry(state').arg = state'.flag_found
           /\ (pc = "verify" /\ state.approval_status # "REQUESTED"
                             /\ LowerTok(state.flag_format) # "unknown"
                             /\ NoPrefix(state)) =>
              /\ state' = state
              /\ state'.flag_found = NoFlag
              /\ pc' = IF Len(state.messages) > MaxMessages THEN "idle" ELSE "reason"
           /\ (state.flag_found # NoFlag /\ state'.flag_found = NoFlag) =>
              /\ pc = "idle"
              /\ state'.messages
                    = Append(state.messages, Entry("User Feedback", state.flag_found))
         ]_vars
    /\ [](state.flag_found # NoFlag =>
             \E i \in 1..Len(state.messages) :
                /\ state.messages[i].kind \in SuccessKinds
                /\ state.messages[i].arg = state.flag_found)

\* a flag was found and rejected, and a later output without the flag
\* format has been verified with the loop going on
C14_Witness ==
    /\ pc = "reason"
    /\ state.flag_found = NoFlag
    /\ Count(state.messages, SuccessKinds) > 0
    /\ Count(state.messages, {"User Feedback"}) > 0
    /\ LastEntry(state).kind = "Ran command"
    /\ NoPrefix(state)

\* the Guardian has returned from a direct call
Returned == call.ret \notin {"none", "pending"}

\* C15: a command that holds 'rm -rf /' or ':(){' is BLOCKED, whatever
\* else it holds.
C15_DestructiveIsBlocked ==
    (Returned /\ ( \/ Contains(call.arg, <<"rm -rf", " /">>)
                   \/ Contains(call.arg, <<":(){">>) ))
        => call.ret = "BLOCKED"

\* a root delete next to a high-risk keyword
C15_Witness ==
    /\ call.arg = <<"curl", "rm -rf", " /">>
    /\ call.ret = "BLOCKED"

\* C16: a command that holds a forbidden path as written is BLOCKED,
\* whatever else it holds.
C16_ForbiddenPathIsBlocked ==
    (Returned /\ \E path \in FORBIDDEN_PATHS : Contains(call.arg, path))
        => call.ret = "BLOCKED"

\* a forbidden path between a harmless word and a high-risk keyword
C16_Witness ==
    /\ call.arg = <<"ls", "/etc", "curl">>
    /\ call.ret = "BLOCKED"

\* the claims' "no blocked pattern and no forbidden path"
Unblocked(command) ==
    /\ ~Contains(Lower(command), <<"rm -rf", " /">>)
    /\ ~Contains(command, <<":(){">>)
    /\ \A path \in FORBIDDEN_PATHS : ~Contains(command, path)

\* a high-risk keyword in any letter case
HasKeyword(command) ==
    \E k \in HIGH_RISK_KEYWORDS : Contains(Lower(command), k)

\* a catch-all marker as written
HasMarker(command) ==
    \E marker \in {"./", "python", "sh "} : Contains(command, <<marker>>)

C19_ClassifyReturnsALabel ==
    [][ (pc = "act" /\ state.current_action.action = "command"
                    /\ state.approval_status # "DENIED")
            => /\ guardian' > guardian
               /\ state'.messages # state.messages
      ]_vars

\* C20: act on a web, screenshot or finish action asks the Guardian
\* nothing, logs no blocked command, leaves approval as it is and not
\* REQUESTED, and the run goes on to verify without the approval controls
\* coming up -- whatever the argument holds.
C20_OnlyCommandsAreClassified ==
    [][ (pc = "act" /\ state.current_action.action \in {"web", "screenshot", "finish"})
            => /\ guardian' = guardian
               /\ LastEntry(state').kind
                     \in {"Scraped URL", "Screenshot taken", "Example Error",
                          "Agent signaling completion"}
               /\ state'.approval_status = state.approval_status
               /\ state'.approval_status # "REQUESTED"
               /\ ~waiting_for_approval'
               /\ sandbox' = sandbox
               /\ pc' = "verify"
      ]_vars

\* a web action whose argument names a forbidden path and a keyword went
\* through, and so did a screenshot of a root delete
C20_Witness ==
    /\ \E i \in 1..Len(state.messages) :
          /\ state.messages[i].kind = "Scraped URL"
          /\ check_command(state.messages[i].arg) = "BLOCKED"
    /\ LastEntry(state).kind = "Screenshot taken"
    /\ check_command(LastEntry(state).arg) = "BLOCKED"
    /\ state.approval_status = "NONE"
    /\ pc = "reason"

(***************************************************************************)
(* The verifier's extraction (src/brain.py, verify_node).                  *)
(***************************************************************************)
\* verify_node has returned to the caller that called it on its own
VerifyReturned == pc = "idle" /\ caller = "direct"

\* the output verify_node inspects
Inspected == AfterMarker(state.tool_output)

Occurrences(text, fmt) == {i \in 1..Len(text) : text[i] = fmt}

Between(text, i, j) == SubSeq(text, i + 1, j - 1)

\* the closing braces after position i
Braces(text, i) == {j \in (i + 1)..Len(text) : text[j] = "}"}

\* a closing brace at j follows the prefix at i after at least one and at
\* most Window characters, none of them a line break
InWindow(text, i, j) ==
    /\ j \in Braces(text, i)
    /\ Chars(Between(text, i, j)) >= 1
    /\ Chars(Between(text, i, j)) <= Window
    /\ \A k \in (i + 1)..(j - 1) : text[k] # "\n"

\* the occurrences of the prefix that have such a closing brace
Matching(text, fmt) == {i \in Occurrences(text, fmt) : \E j \in Braces(text, i) : InWindow(text, i, j)}

Least(S) == CHOOSE x \in S : \A y \in S : x <= y

\* C21 as stated: when the prefix occurs in the inspected output and a
\* closing brace follows its first occurrence within the window, verify
\* sets the flag to the text from that first occurrence through the
\* nearest following closing brace.
C21_FirstPrefixToNearestBrace ==
    VerifyReturned =>
      LET occ == Occurrences(Inspected, state.flag_format) IN
      occ # {} =>
        LET i == Least(occ)
            braces == Braces(Inspected, i)
        IN (braces # {} /\ Chars(Between(Inspected, i, Least(braces))) <= Window)
             => state.flag_found = SubSeq(Inspected, i, Least(braces))

\* C21: when some occurrence of the prefix in the inspected output is
\* followed, after at least one and at most 100 characters none of which
\* is a line break, by a closing brace, verify sets the flag to the text
\* from the first such occurrence through the nearest closing brace at
\* such a distance from it, and logs it.
C21_FirstMatchingPrefixToNearestBrace ==
    VerifyReturned =>
      LET matching == Matching(Inspected, state.flag_format) IN
      matching # {} =>
        LET i == Least(matching)
            j == Least({k \in Braces(Inspected, i) : InWindow(Inspected, i, k)})
        IN /\ state.flag_found = SubSeq(Inspected, i, j)
           /\ state.messages = <<Entry("SUCCESS: Flag found", SubSeq(Inspected, i, j))>>

\* the example of the specification: a flag between noise
C21_Witness ==
    /\ VerifyReturned
    /\ state.tool_output = <<"noise ", "CTF{", "abc", "}", "noise ">>
    /\ state.flag_found = <<"CTF{", "abc", "}">>

\* the literal-prefix step produced the match
LiteralMatch ==
    /\ state.flag_found # NoFlag
    /\ state.messages = <<Entry("SUCCESS: Flag found", state.flag_found)>>

\* the text between the prefix and the closing brace of the match
Body(m) == SubSeq(m, 2, Len(m) - 1)

\* C22 as stated: if no closing brace follows the first occurrence of the
\* prefix within 100 characters, the literal-prefix step produces no match;
\* every match of that step has at most 100 characters between the prefix
\* and the closing brace.
C22_FirstOccurrenceDecides ==
    VerifyReturned =>
      LET occ == Occurrences(Inspected, state.flag_format) IN
      /\ (/\ occ # {}
          /\ \A j \in Braces(Inspected, Least(occ)) :
                Chars(Between(Inspected, Least(occ), j)) > Window)
           => ~LiteralMatch
      /\ LiteralMatch => Chars(Body(state.flag_found)) <= Window

\* C22: if no occurrence of the prefix is followed by a closing brace after
\* at least 1 and at most 100 characters without a line break, the
\* literal-prefix step produces no match; every match of that step starts
\* with the prefix, ends with the closing brace and has between them at
\* least 1 and at most 100 characters, none a line break.
C22_NoMatchOutsideTheWindow ==
    VerifyReturned =>
      /\ Matching(Inspected, state.flag_format) = {} => ~LiteralMatch
      /\ LiteralMatch =>
           /\ Head(state.flag_found) = state.flag_format
           /\ state.flag_found[Len(state.flag_found)] = "}"
           /\ Chars(Body(state.flag_found)) >= 1
           /\ Chars(Body(state.flag_found)) <= Window
           /\ ~Contains(Body(state.flag_found), <<"\n">>)

\* a closing brace 103 characters after the only prefix: no match
C22_Witness ==
    /\ VerifyReturned
    /\ state.tool_output = <<"CTF{", "x*100", "abc", "}">>
    /\ state.flag_found = NoFlag
    /\ state.messages = <<>>

\* the flags an output can hold encoded: they start with the prefix and
\* end with the closing brace
Flags == {Encodings[i][2] : i \in {i \in 1..Len(Encodings) :
              /\ Head(Encodings[i][2]) = "CTF{"
              /\ Encodings[i][2][Len(Encodings[i][2])] = "}"}}

\* the token at position i of the text has no character of the base64
\* alphabet next to it
Delimited(text, i) ==
    /\ i > 1 => ~IsB64(text[i - 1]) /\ Trail(text[i - 1]) = 0
    /\ i < Len(text) => ~IsB64(text[i + 1]) /\ Lead(text[i + 1]) = 0

\* the positions where the encoding of F stands as a delimited token
EncodedAt(text, F) == {i \in 1..Len(text) : text[i] = b64encode(F) /\ Delimited(text, i)}

\* C23 as stated: for every flag F, if the encoding of F has at least 20
\* characters and stands in the output as a token delimited by characters
\* outside the base64 alphabet, and the prefix does not occur literally,
\* verify sets the flag to F.
C23_EncodedFlagIsFound ==
    VerifyReturned =>
      \A F \in Flags :
        (/\ TokLen(b64encode(F)) >= MinRun
         /\ EncodedAt(Inspected, F) # {}
         /\ ~Contains(Inspected, <<state.flag_format>>))
          => state.flag_found = F

\* F holds one closing brace, its last character, after a body of 1 to 100
\* characters without a line break
Extractable(F) ==
    /\ Braces(F, 1) = {Len(F)}
    /\ InWindow(F, 1, Len(F))

\* C23: for every flag F whose body has 1 to 100 characters, no line break
\* and no closing brace: if the encoding of F has at least 20 characters
\* and is the first token of that length delimited by characters outside
\* the base64 alphabet whose decoding holds an extractable flag, and the
\* prefix does not occur literally, verify sets the flag to F and logs it
\* as decoded.
C23_FirstEncodedFlagIsFound ==
    VerifyReturned =>
      \A F \in Flags :
        (/\ Extractable(F)
         /\ TokLen(b64encode(F)) >= MinRun
         /\ EncodedAt(Inspected, F) # {}
         /\ ~Contains(Inspected, <<state.flag_format>>)
         /\ \A G \in Flags \ {F} :
               \A k \in 1..Len(Inspected) :
                  (Inspected[k] = b64encode(G) /\ k < Least(EncodedAt(Inspected, F)))
                    => Matching(G, state.flag_format) = {})
          => /\ state.flag_found = F
             /\ state.messages = <<Entry("SUCCESS: Flag found (Base64 Decoded)", F)>>

\* the test of the repository: the encoded flag between blanks
C23_Witness ==
    /\ VerifyReturned
    /\ state.tool_output = <<" ", "b64(CTF{hidden_in_blocks})", " ">>
    /\ state.flag_found = <<"CTF{", "hidden_in_blocks", "}">>

\* the target of the specification's example and its 12 characters of base64
Target == <<"CTF{", "xyz", "}">>

\* the characters of the base64 alphabet that stand directly before the
\* token at position i
RECURSIVE Before(_, _)
Before(text, i) ==
    IF i = 1 THEN 0
    ELSE IF IsB64(text[i - 1]) THEN TokLen(text[i - 1]) + Before(text, i - 1)
    ELSE Trail(text[i - 1])

\* the output holds one encoded token, that of the target at position i,
\* and the prefix nowhere as it is
TargetAlone(text, i) ==
    /\ text[i] = b64encode(Target)
    /\ \A k \in (1..Len(text)) \ {i} : B64Decode(text[k]) = None
    /\ ~Contains(text, <<"CTF{">>)

\* C24 as stated: the encoding of CTF{xyz} among at least 20 characters of
\* noise is decoded and the flag is set to CTF{xyz}.
C24_TargetInNoiseIsFound ==
    VerifyReturned =>
      \A i \in 1..Len(Inspected) :
        (/\ TargetAlone(Inspected, i)
         /\ Chars(Inspected) - TokLen(Inspected[i]) >= 20)
          => state.flag_found = Target

\* C24: the encoding of CTF{xyz} has 12 characters.  Delimited by
\* characters outside the base64 alphabet it is shorter than the shortest
\* run the verifier decodes, and the flag stays unset; directly after at
\* least 8 noise characters of the base64 alphabet whose number is a
\* multiple of 4, the run is decoded and the flag is set to CTF{xyz}.
C24_TargetNeedsAdjacentNoise ==
    VerifyReturned =>
      \A i \in 1..Len(Inspected) :
        TargetAlone(Inspected, i) =>
          /\ Delimited(Inspected, i) =>
                state.flag_found = NoFlag /\ state.messages = <<>>
          /\ (Before(Inspected, i) >= 8 /\ Before(Inspected, i) % 4 = 0) =>
                /\ state.flag_found = Target
                /\ state.messages =
                     <<Entry("SUCCESS: Flag found (Base64 Decoded)", Target)>>

\* the target decoded out of a run with the noise before it
C24_Witness ==
    /\ VerifyReturned
    /\ state.tool_output = <<"x*100", "b64(CTF{xyz})", " ">>
    /\ state.flag_found = Target

\* the flag format is the sentinel and verify is about to inspect an output
AtSentinelVerify ==
    /\ pc = "verify"
    /\ LowerTok(state.flag_format) = "unknown"
    /\ state.approval_status # "REQUESTED"

\* the positions where a generic pattern matches, in any case: its prefix
\* and, on the same line, a closing brace
GenericAt(text, pattern) ==
    {i \in 1..Len(text) :
        /\ LowerTok(text[i]) = LowerTok(pattern)
        /\ \E j \in Braces(text, i) : \A k \in (i + 1)..(j - 1) : text[k] # "\n"}

\* the first match of a generic pattern, through the nearest closing brace
GenericMatch(text, pattern) ==
    LET i == Least(GenericAt(text, pattern))
        j == Least({j \in Braces(text, i) : \A k \in (i + 1)..(j - 1) : text[k] # "\n"})
    IN SubSeq(text, i, j)

\* the generic patterns that match the text, by their place in the list
GenericHits(text) ==
    {p \in 1..Len(generic_patterns) : GenericAt(text, generic_patterns[p]) # {}}

\* C25 as stated: with the sentinel as flag format verify matches only the
\* generic patterns, in any case, against the raw output, in the order of
\* the list, and decodes nothing: with no generic match it changes nothing
\* and the loop continues with reason.
C25_SentinelMatchesGenericOnly ==
    [][ AtSentinelVerify =>
          LET hits == GenericHits(Inspected) IN
          /\ hits # {} =>
               /\ state'.flag_found = GenericMatch(Inspected, generic_patterns[Least(hits)])
               /\ state'.messages = Append(state.messages,
                     Entry("SUCCESS: Flag found (generic)", state'.flag_found))
          /\ hits = {} => state' = state /\ pc' = "reason"
      ]_vars

\* C25: ... and the loop continues with reason unless the log holds more
\* than 20 entries, in which case the graph run ends.
C25_SentinelMatchesGenericWithinBudget ==
    [][ AtSentinelVerify =>
          LET hits == GenericHits(Inspected) IN
          /\ hits # {} =>
               /\ state'.flag_found = GenericMatch(Inspected, generic_patterns[Least(hits)])
               /\ state'.messages = Append(state.messages,
                     Entry("SUCCESS: Flag found (generic)", state'.flag_found))
          /\ hits = {} =>
               /\ state' = state
               /\ pc' = IF Len(state.messages) > MaxMessages THEN "idle" ELSE "reason"
      ]_vars

\* an encoded flag was inspected under the sentinel and the loop went on
C25_Witness ==
    /\ pc = "reason"
    /\ LowerTok(state.flag_format) = "unknown"
    /\ Inspected = <<"b64(CTF{hidden_in_blocks})">>
    /\ state.flag_found = NoFlag

(***************************************************************************)
(* The retry wrapper (src/brain.py, _safe_generate_content).               *)
(***************************************************************************)
\* the number of rate-limit errors the script starts with
RECURSIVE Limits(_)
Limits(script) ==
    IF script = <<>> THEN 0
    ELSE IF Head(script) \in {"429", "Quota"} THEN 1 + Limits(Tail(script))
    ELSE 0

WrapperDone == call.ret \in {"returned", "raised"}

\* what holds of the wrapper at every moment and when it is done
RetryOutcome ==
    LET k == Limits(call.arg) IN
    /\ call.calls <= retries
    /\ Len(call.sleeps) <= call.calls
    /\ WrapperDone =>
         /\ (k < retries /\ side_effect(call.arg, k + 1) = "response")
              => /\ call.ret = "returned"
                 /\ call.calls = k + 1
                 /\ Len(call.sleeps) = k
         /\ k >= retries
              => /\ call.ret = "raised"
                 /\ call.calls = retries
                 /\ Len(call.sleeps) = retries - 1
         /\ (k < retries /\ side_effect(call.arg, k + 1) # "response")
              => /\ call.ret = "raised"
                 /\ call.at = side_effect(call.arg, k + 1)
                 /\ call.calls = k + 1
                 /\ Len(call.sleeps) = k

\* C26: after k < 3 rate-limit errors and a response the wrapper returns
\* that response, having made k + 1 calls and slept k times; it never
\* makes more than 3 calls, raises on the 3rd rate-limit error in a row,
\* raises at once on any other error, and always comes to an end.
C26_RetryIsBoundedAndEnds == []RetryOutcome /\ <>WrapperDone

\* the run of the repository's test: two rate limits, then the response
C26_Witness ==
    /\ call.arg = <<"429", "429", "response">>
    /\ call.ret = "returned"
    /\ call.calls = 3
    /\ Len(call.sleeps) = 2

(***************************************************************************)
(* Failures of the oracle and of the tools.                                *)
(***************************************************************************)
\* a step of reason in which the oracle did not give its plain reply: in
\* the episodes of FailuresSpec, a failed call or a response that is no
\* decision
ReasonFails == pc = "reason" /\ deviations' = deviations + 1

\* the log entries reason writes for a failure
FailureNotes ==
    { Entry("Thought", <<"JSON Parse Error, trying manual fix.">>),
      Entry("Reasoning Error", <<>>) }

\* C27: when the oracle call fails or its response is no JSON decision,
\* reason returns with a finish decision stored, one log entry appended
\* that describes the failure, approval NONE and the rest of the context
\* as it was; nothing is raised.
C27_ReasonAbsorbsOracleFailure ==
    [][ ReasonFails =>
          /\ state'.current_action.action = "finish"
          /\ \E note \in FailureNotes : state'.messages = Append(state.messages, note)
          /\ state'.approval_status = "NONE"
          /\ state' = [state EXCEPT !.current_action = state'.current_action,
                                    !.messages = state'.messages,
                                    !.approval_status = "NONE"]
          /\ caller = "invoke" => pc' = "act"
      ]_vars

\* the node after a reason whose oracle call failed
C27_Witness ==
    /\ pc = "act"
    /\ LastEntry(state) = Entry("Reasoning Error", <<>>)
    /\ state.current_action = [action |-> "finish", argument |-> <<"Error in reasoning">>]
    /\ state.approval_status = "NONE"

\* the texts run_command returns when docker exec timed out or raised
Sentinels ==
    { <<"Error: Command timed out in Sandbox.">>,
      <<"Error executing command in Sandbox: ", "gone">> }

\* a step of act in which the command handed to the sandbox failed
ExecutorFails == pc = "act" /\ Tool(state) = "sandbox" /\ deviations' = deviations + 1

\* C29 as stated: when the executor times out or fails, act stores the
\* sentinel text as output, logs the command as run, leaves approval NONE
\* and goes on to verify, which changes nothing and goes on to reason.
C29_ExecutorFailureContinues ==
    [][ /\ ExecutorFails =>
             /\ \E text \in Sentinels :
                   state'.tool_output = <<"Command '">> \o state.current_action.argument
                                          \o <<"' ", "Output:\n">> \o text
             /\ state'.messages = Append(state.messages,
                   Entry("Ran command", state.current_action.argument))
             /\ state'.approval_status = "NONE"
             /\ sandbox' = Append(sandbox, state.current_action.argument)
             /\ pc' = "verify"
        /\ (pc = "verify" /\ Inspected \in Sentinels) =>
             /\ state' = state
             /\ pc' = "reason"
      ]_vars

\* C29: ... and goes on to reason unless the log holds more than 20
\* entries, in which case the graph run ends.
C29_ExecutorFailureContinuesWithinBudget ==
    [][ /\ ExecutorFails =>
             /\ \E text \in Sentinels :
                   state'.tool_output = <<"Command '">> \o state.current_action.argument
                                          \o <<"' ", "Output:\n">> \o text
             /\ state'.messages = Append(state.messages,
                   Entry("Ran command", state.current_action.argument))
             /\ state'.approval_status = "NONE"
             /\ sandbox' = Append(sandbox, state.current_action.argument)
             /\ pc' = "verify"
        /\ (pc = "verify" /\ Inspected \in Sentinels) =>
             /\ state' = state
             /\ pc' = IF Len(state.messages) > MaxMessages THEN "idle" ELSE "reason"
      ]_vars

\* a timeout lies behind and the loop is planning again
C29_Witness ==
    /\ pc = "reason"
    /\ Inspected = <<"Error: Command timed out in Sandbox.">>
    /\ LastEntry(state).kind = "Ran command"
    /\ state.approval_status = "NONE"

\* the action kinds act_node has a branch for
KnownKinds == {"command", "web", "screenshot", "finish"}

\* C28: for every decision reason can store, whatever its action and with
\* or without argument, act completes: it appends one log entry for the
\* outcome and the graph run goes on to verify; an action of unknown kind
\* runs no tool and is logged as skipped.
C28_ActCompletesOnEveryDecision ==
    [][ pc = "act" =>
          /\ Len(state'.messages) = Len(state.messages) + 1
          /\ caller = "invoke" => pc' = "verify"
          /\ state.current_action.action \notin KnownKinds =>
               /\ sandbox' = sandbox
               /\ LastEntry(state').kind = "Skipping unknown action"
      ]_vars

\* a is what b starts with
IsPrefix(a, b) == Len(a) <= Len(b) /\ SubSeq(b, 1, Len(a)) = a

\* C30: within an episode every step, of a stage or of the operator
\* (grant, deny, rejection), leaves the log it found as a prefix of the log
\* it leaves: no entry is removed, rewritten or moved, and the log never
\* gets shorter.
C30_LogIsAppendOnly ==
    [][IsPrefix(state.messages, state'.messages)]_vars

\* a log that went through a flag, its rejection by the operator and a
\* further stage
C30_Witness ==
    /\ \E i \in 1..Len(state.messages) :
          /\ state.messages[i].kind = "User Feedback"
          /\ i < Len(state.messages)
          /\ \E k \in 1..(i - 1) : state.messages[k].kind \in SuccessKinds

(***************************************************************************)
(* Replay, authorisation and termination over whole episodes.              *)
(***************************************************************************)
\* observe is entered on a context it passes through
ObserveReplayed ==
    /\ pc = "observe"
    /\ \/ HasObservation(state.messages)
       \/ state.approval_status = "GRANTED"

\* C31: the log never holds more than one observation entry, and observe,
\* entered on a context that holds the observation marker or whose approval
\* is GRANTED, leaves the context as it is.
C31_ObserveOnce ==
    /\ [](Count(state.messages, {"Observing challenge"}) <= 1)
    /\ [][ObserveReplayed => state' = state]_vars

\* a later graph run of the episode has passed through observe
C31_Witness ==
    /\ pc = "expert_consensus"
    /\ Count(state.messages, {"Observing challenge"}) = 1
    /\ Len(state.messages) > 3
    /\ Len(sandbox) > 0

\* the step hands the sandbox one command, c
Executes(c) == sandbox' = Append(sandbox, c)

\* C32: a step hands the sandbox at most one command; what the graph hands
\* it is SAFE, or HIGH_RISK with approval GRANTED and the very action the
\* approval overlay showed; approval becomes GRANTED only by the operator's
\* button, pressed while that action was shown; and nothing BLOCKED reaches
\* the sandbox, through act or through run_command called on its own.
C32_OnlySafeOrGrantedRuns ==
    /\ [][ sandbox' # sandbox =>
             \E i \in {Len(sandbox')} :
                LET c == sandbox'[i] IN
                /\ Executes(c)
                /\ check_command(c) # "BLOCKED"
                /\ caller # "direct" =>
                     \/ check_command(c) = "SAFE"
                     \/ /\ check_command(c) = "HIGH_RISK"
                        /\ state.approval_status = "GRANTED"
                        /\ state.current_action = shown
                        /\ shown.argument = c
         ]_vars
    /\ [][ (state'.approval_status = "GRANTED" /\ state.approval_status # "GRANTED") =>
             /\ caller = "app" /\ pc = "idle"
             /\ waiting_for_approval
             /\ state.approval_status = "REQUESTED"
             /\ state.current_action = shown
             /\ state'.current_action = shown
         ]_vars

\* a HIGH_RISK command has run after the operator's grant
C32_Witness ==
    /\ sandbox # <<>>
    /\ check_command(sandbox[Len(sandbox)]) = "HIGH_RISK"
    /\ sandbox[Len(sandbox)] = shown.argument
    /\ Count(state.messages, {"Permission granted"}) > 0
    /\ state.approval_status = "NONE"

\* C33: act and the edge out of verify never find approval DENIED: reason,
\* which every graph run goes through before act, resets it to NONE; so
\* the log never holds the entry of act's DENIED branch.
C33_DeniedNeverReachesAct ==
    /\ [](pc \in {"act", "verify"} => state.approval_status # "DENIED")
    /\ [](Count(state.messages, {"Action was denied"}) = 0)
    /\ [][ (pc = "reason" /\ state.approval_status = "DENIED")
              => state'.approval_status = "NONE" ]_vars

\* act is entered in the graph run that followed the operator's DENY
C33_Witness ==
    /\ pc = "act"
    /\ state.approval_status = "NONE"
    /\ Len(state.messages) >= 2
    /\ state.messages[Len(state.messages) - 1].kind = "Requesting approval"
    /\ LastEntry(state).kind = "Thought"

(***************************************************************************)
(* C34: every controller invocation terminates.  While a graph run is      *)
(* active the log never shrinks; every pass through reason and every pass  *)
(* through act appends exactly one entry; the edge from verify back to     *)
(* reason is taken only while the log holds at most 20 entries; and a      *)
(* graph run that has started comes to its end, also when the oracle       *)
(* chooses a blocked command, or fails, in every cycle.                    *)
(***************************************************************************)
Grows(n) == Len(state'.messages) = Len(state.messages) + n

C34_InvocationTerminates ==
    /\ [][pc # "idle" => Len(state'.messages) >= Len(state.messages)]_vars
    /\ [][(pc = "reason" /\ pc' # "reason" /\ state' # state) => Grows(1)]_vars
    /\ [][(pc = "act" /\ state' # state) => Grows(1)]_vars
    /\ [][(pc = "verify" /\ pc' = "reason") =>
              Len(state'.messages) <= MaxMessages]_vars
    /\ [](pc \in {"reason", "act", "verify"} =>
              Len(state.messages) <= MaxMessages + MaxOverrun + 3)
    /\ (pc # "idle") ~> (pc = "idle")

\* a run of the compiled graph ended at the ceiling after the Guardian
\* blocked the command of every cycle
C34_Witness ==
    /\ pc = "idle" /\ caller = "invoke"
    /\ Len(state.messages) > MaxMessages
    /\ Len(sandbox) = 0
    /\ Count(state.messages, {"Thought"}) >= 9
    /\ menu.replies = {BlockedReply}
    /\ deviations = Count(state.messages, {"Thought"})

(***************************************************************************)
(* C35: one grant authorises one run.  The act stage that runs a command   *)
(* leaves approval NONE, so GRANTED is never seen after act; a HIGH_RISK   *)
(* command met without GRANTED is not run: approval becomes REQUESTED and  *)
(* the graph run ends there; and the HIGH_RISK commands handed to the      *)
(* sandbox are never more than the grants the operator gave.               *)
(***************************************************************************)
RECURSIVE Risky(_)
\* how many of the commands are HIGH_RISK
Risky(commands) ==
    IF commands = <<>> THEN 0
    ELSE Risky(Tail(commands))
         + (IF check_command(Head(commands)) = "HIGH_RISK" THEN 1 ELSE 0)

Grants == Count(state.messages, {"Permission granted"})

C35_OneGrantOneRun ==
    /\ [](pc = "verify" => state.approval_status # "GRANTED")
    /\ [](Risky(sandbox) <= Grants)
    /\ [][pc = "act" => state'.approval_status # "GRANTED"]_vars
    /\ [][sandbox' # sandbox => state'.approval_status = "NONE"]_vars
    /\ [][(pc = "act" /\ Pending(state, "HIGH_RISK")
              /\ state.approval_status = "NONE") =>
             /\ state'.approval_status = "REQUESTED"
             /\ sandbox' = sandbox
             /\ pc' = IF caller = "app" THEN "idle" ELSE "verify"]_vars
    /\ [][(pc = "verify" /\ state.approval_status = "REQUESTED") =>
             /\ pc' = "idle"
             /\ state' = state]_vars

\* two HIGH_RISK commands of one episode, each requested, granted and run
C35_Witness ==
    /\ Risky(sandbox) = 2
    /\ Grants = 2
    /\ Count(state.messages, {"Requesting approval"}) = 2
    /\ state.approval_status = "NONE"

(***************************************************************************)
(* C36: whatever the order in which the three specialist calls complete,   *)
(* expert_outputs stores under each persona the report that starts with    *)
(* that persona's heading.                                                 *)
(***************************************************************************)
C36_LabelsMatchReports ==
    syntheses > 0 =>
        /\ Len(state.expert_outputs) = Len(personas)
        /\ \A i \in 1..Len(state.expert_outputs) :
              state.expert_outputs[i].report.heading = state.expert_outputs[i].persona

(***************************************************************************)
(* C37: once the stored decision is a finish action (the oracle's choice   *)
(* or the default after a failed call) nothing is handed to the sandbox,   *)
(* the oracle is not called and the graph does not go back to reason.      *)
(***************************************************************************)
C37_FinishStops ==
    [][state.current_action.action = "finish" =>
          /\ sandbox' = sandbox
          /\ oracle' = oracle
          /\ pc' # "reason"]_vars

(***************************************************************************)
(* C38: a success signal comes from what the tool answered only: whenever  *)
(* verify sets flag_found, the inspected output ends with an answer of a   *)
(* tool, and verifying that answer by itself gives the same flag.          *)
(***************************************************************************)
\* what the tools of the episode answer
ToolAnswers == {<<"out">>, <<"/shot", ".png">>} \cup menu.answers

FromTool(s, signal) ==
    \E k \in 1..Len(s.tool_output) :
        LET result == SubSeq(s.tool_output, k, Len(s.tool_output)) IN
        /\ result \in ToolAnswers
        /\ verify_node([s EXCEPT !.tool_output = result]).flag_found = signal

C38_SignalFromToolOnly ==
    [][(pc = "verify" /\ state'.flag_found # state.flag_found) =>
          FromTool(state, state'.flag_found)]_vars

(***************************************************************************)
(* C39: the output a rejected flag was found in is not verified again.     *)
(* The rejection starts a graph run at observe with approval NONE; reason  *)
(* then asks the oracle for a new action; verify is entered from act       *)
(* only, and unless act has set approval to REQUESTED (verify then leaves  *)
(* the context as it is) act has written the output anew for the action    *)
(* it was given; flag_found is set by verify alone.                        *)
(***************************************************************************)
Rejected == Count(state.messages, {"User Feedback"}) > 0

\* act_node has written s1.tool_output for the stored action of s
Written(s, s1) ==
    LET kind == s.current_action.action
        argument == s.current_action.argument
    IN
    \/ s1.tool_output = <<"SECURITY VIOLATION: Command blocked by Guardian.">>
    \/ /\ kind = "command"
       /\ IsPrefix(<<"Command '">> \o argument \o <<"' ", "Output:\n">>, s1.tool_output)
    \/ /\ kind = "web"
       /\ IsPrefix(<<"Web Scrape '">> \o Str(argument), s1.tool_output)
    \/ /\ kind = "screenshot"
       /\ s1.tool_output[1] \in {"[SCREENSHOT]: ", "Screenshot Failed: "}
    \/ s1.tool_output \in {<<"Agent decided to finish.">>, <<"Unknown action: ", kind>>}

C39_StaleOutputNotVerified ==
    [][ /\ (pc = "idle" /\ flag # NoFlag /\ flag' = NoFlag) =>
              /\ state.approval_status = "NONE"
              /\ state'.tool_output = state.tool_output
              /\ pc' = "observe"
        /\ (Rejected /\ pc \in {"observe", "expert_consensus", "experts"}) =>
              /\ state'.flag_found = NoFlag
              /\ pc' # "verify"
        /\ (Rejected /\ pc = "reason" /\ state.approval_status # "GRANTED") =>
              Len(oracle') = Len(oracle) + 1
        /\ (Rejected /\ pc' = "verify") => pc = "act"
        /\ (Rejected /\ pc = "act" /\ pc' = "verify") =>
              \/ state'.approval_status = "REQUESTED"
              \/ Written(state, state')
        /\ (Rejected /\ pc = "act" /\ pc' = "idle" /\ state' # state) =>
              /\ state'.approval_status = "REQUESTED"
              /\ state'.flag_found = NoFlag
        /\ (Rejected /\ pc = "verify" /\ state.approval_status = "REQUESTED") =>
              state' = state
        /\ (Rejected /\ state'.flag_found # NoFlag) => pc = "verify"
      ]_vars

\* after a rejection a new command was run and verify found no flag in
\* what it answered
C39_Witness ==
    /\ pc = "reason"
    /\ Len(state.messages) > 3
    /\ state.messages[Len(state.messages) - 2].kind = "User Feedback"
    /\ LastEntry(state).kind = "Ran command"
    /\ state.flag_found = NoFlag
    /\ state.tool_output = <<"Command '", "ls", "' ", "Output:\n", "out">>

(***************************************************************************)
(* C40: the log is an audit trail of the sandbox.  The 'Ran command'       *)
(* entries of the log are, in number, order and argument, the commands     *)
(* handed to the sandbox; a step that hands a command to the sandbox       *)
(* appends that one entry and no other; a BLOCKED command and a HIGH_RISK  *)
(* command waiting for approval are logged with entries of their own and   *)
(* nothing is handed to the sandbox.                                       *)
(***************************************************************************)
Ran == SelectSeq(state.messages, LAMBDA m : m.kind = "Ran command")

C40_AuditTrail ==
    /\ [](/\ Len(Ran) = Len(sandbox)
          /\ \A i \in 1..Len(Ran) : Ran[i].arg = sandbox[i])
    /\ [][sandbox' # sandbox =>
             /\ sandbox' = Append(sandbox, state.current_action.argument)
             /\ state'.messages =
                   Append(state.messages,
                          Entry("Ran command", state.current_action.argument))]_vars
    /\ [][(pc = "act" /\ Pending(state, "BLOCKED")) =>
             /\ state'.messages =
                   Append(state.messages,
                          Entry("Blocked dangerous command", state.current_action.argument))
             /\ sandbox' = sandbox]_vars
    /\ [][(pc = "act" /\ Pending(state, "HIGH_RISK")
              /\ state.approval_status # "GRANTED") =>
             /\ state'.messages =
                   Append(state.messages,
                          Entry("Requesting approval", state.current_action.argument))
             /\ sandbox' = sandbox]_vars

\* a log that holds the entry of a command that ran, of one that was
\* blocked and of one that waited for approval and then ran
C40_Witness ==
    /\ Len(sandbox) = 2
    /\ Ran[1].arg = <<"ls">>
    /\ Ran[2].arg = <<"curl">>
    /\ Count(state.messages, {"Blocked dangerous command"}) = 1
    /\ Count(state.messages, {"Requesting approval"}) = 1
====
